---- MODULE Spec2Model ----
\* Model of the thunderbird-mcp stdio-to-HTTP bridge (mcp-bridge.cjs) together
\* with the path handler of the extension's HTTP endpoint (api.js), as one
\* state machine of the bridge's event loop:
\*   - every input line is one request slot r in 1..MaxLines;
\*   - promise reactions run from a FIFO job queue (microtasks) that is drained
\*     before the next event-loop callback is taken;
\*   - stdout is blocking (mcp-bridge.cjs:16-18), so a write puts its chunk on
\*     the output at once and only its return value says whether to wait for
\*     'drain'.
\* The extension (api.js) has three further state machines, each with its own
\* specification: the path handler with callTool and the tool handlers
\* (ServerSpec), searchMessages over the headers it enumerates (SearchSpec)
\* and the traversal of the folder tree under the collection cap (WalkSpec).
EXTENDS Integers, Sequences, FiniteSets, TLC

\* ------------------------------------------------------------------ bounds
\* Number of input lines the bridge reads in one run.
MaxLines == 2

Req == 1..MaxLines

\* ------------------------------------------------------------- constants
BridgeErrorCode == -32700
DispatchErrorCode == -32000
ReplacementChar == 65533

\* ---------------------------------------------------------------- ids
\* A JSON-RPC id: absent (undefined), null, a number, or a string given as
\* its sequence of UTF-16 code units.
Absent == [t |-> "absent", v |-> <<>>]
Null == [t |-> "null", v |-> <<>>]
NumId(n) == [t |-> "num", v |-> <<n>>]
StrId(u) == [t |-> "str", v |-> u]
\* An ASCII string id so long that a line carrying it has at least
\* highWaterMark (16 KiB) bytes; v stands for its repeated character.
LongStrId == [t |-> "longstr", v |-> <<97>>]

\* ids used by the input lines: none, 1, the one-character string U+00E9 and
\* a long ASCII string.
Ids == {Absent, NumId(1), StrId(<<233>>), LongStrId}

\* --------------------------------------------------------- text on the wire
\* UTF-8 encoding of a string of BMP code units (Buffer.byteLength(postData),
\* req.write(postData): Node encodes strings as UTF-8).
RECURSIVE Utf8Encode(_)
Utf8Encode(u) ==
  IF u = <<>> THEN <<>>
  ELSE LET c == Head(u)
           enc == IF c < 128 THEN <<c>>
                  ELSE IF c < 2048 THEN <<192 + (c \div 64), 128 + (c % 64)>>
                  ELSE <<224 + (c \div 4096), 128 + ((c \div 64) % 64), 128 + (c % 64)>>
       IN enc \o Utf8Encode(Tail(u))

IsCont(b) == b >= 128 /\ b <= 191

\* UTF-8 decoding that replaces every malformed byte by U+FFFD
\* (Buffer.toString('utf8'); NetUtil.readInputStreamToString with charset UTF-8).
RECURSIVE Utf8Decode(_)
Utf8Decode(b) ==
  IF b = <<>> THEN <<>>
  ELSE LET h == Head(b)
           n == Len(b)
       IN IF h < 128 THEN <<h>> \o Utf8Decode(Tail(b))
          ELSE IF h >= 194 /\ h <= 223 /\ n >= 2 /\ IsCont(b[2])
            THEN <<(h - 192) * 64 + (b[2] - 128)>> \o Utf8Decode(SubSeq(b, 3, n))
          ELSE IF h >= 224 /\ h <= 239 /\ n >= 3 /\ IsCont(b[2]) /\ IsCont(b[3])
                  /\ (h # 224 \/ b[2] >= 160)
            THEN <<(h - 224) * 4096 + (b[2] - 128) * 64 + (b[3] - 128)>>
                   \o Utf8Decode(SubSeq(b, 4, n))
          ELSE <<ReplacementChar>> \o Utf8Decode(Tail(b))

\* The HTTP library of the extension writes a response string as raw bytes,
\* one byte per code unit, without encoding it (api.js:210-213).
HttpdWrite(u) == [i \in 1..Len(u) |-> u[i] % 256]

\* The id as the path handler sees it: JSON.stringify + UTF-8 by the bridge,
\* readRequestBody (UTF-8) + JSON.parse by the extension.
RequestIdAtServer(id) ==
  IF id.t = "str" THEN StrId(Utf8Decode(Utf8Encode(id.v))) ELSE id

\* The id as the bridge reads it back from the response body: JSON.stringify +
\* raw-byte write by the extension, Buffer.toString('utf8') + JSON.parse by the
\* bridge.
ResponseIdAtBridge(id) ==
  IF id.t = "str" THEN StrId(Utf8Decode(HttpdWrite(id.v))) ELSE id

\* ------------------------------------------------------------ input lines
\* Requests (answered locally or forwarded) and notification methods (two the
\* bridge knows, one it does not).
RequestMethods == {"initialize", "tools/call"}
NotificationMethods == {"notifications/initialized", "notifications/cancelled",
                        "notifications/progress"}

\* A line of input: blank, not JSON at all, the JSON literal null, or a JSON
\* object with a method and possibly an id.
BlankLine == [kind |-> "blank", method |-> "", id |-> Absent]
GarbageLine == [kind |-> "garbage", method |-> "", id |-> Absent]
NullLine == [kind |-> "null", method |-> "", id |-> Absent]
\* Requests come with every id; the notification methods come without an id,
\* and notifications/cancelled also, as a malformed variant, with the id 1.
ObjectLines ==
  [kind : {"object"}, method : RequestMethods, id : Ids]
    \cup [kind : {"object"}, method : NotificationMethods, id : {Absent}]
    \cup {[kind |-> "object", method |-> "notifications/cancelled", id |-> NumId(1)]}
Lines == {BlankLine, GarbageLine, NullLine} \cup ObjectLines

\* ------------------------------------------------------ values of a promise
NoResp == [kind |-> "none", id |-> Absent, code |-> 0, payload |-> ""]
Pending == [state |-> "pending", resp |-> NoResp, err |-> ""]
Resolved(resp) == [state |-> "resolved", resp |-> resp, err |-> ""]
Rejected(e) == [state |-> "rejected", resp |-> NoResp, err |-> e]

\* resp[r] before the extension has answered.
NoHttpResp == [status |-> 0, json |-> FALSE, id |-> Absent, code |-> 0, payload |-> ""]

\* ------------------------------------------------------------------ state
VARIABLES
  proc,             \* "running", "exited" (process.exit from checkExit), "killed" (signal)
  stdinClosed,      \* let stdinClosed
  pendingRequests,  \* let pendingRequests
  nread,            \* number of lines read from stdin so far
  line,             \* line[r]: the r-th input line (BlankLine until read)
  phase,            \* phase[r]: "unread", "blank", "handling", "draining", "done"
  promise,          \* promise[r]: the promise returned by handleMessage(line r)
  http,             \* http[r]: "none", "sent", "aborted", "closed"
  resp,             \* resp[r]: the HTTP response the extension gave for r
  microtasks,       \* FIFO queue of promise reaction jobs [r, k]
  inLineLoop,       \* readline may still be emitting lines of the chunk whose jobs are queued
  output,           \* the chunks written to stdout, in order
  needDrain,        \* a write returned false and 'drain' has not been emitted yet
  drainWaiters,     \* requests whose writeOutput waits for 'drain', in order
  settled,          \* history: requests in the order their promise settled
  chunkOf,          \* history: chunkOf[r] = number of the input chunk that held line r
  timedOut,         \* history: requests whose 30 s timeout fired
  inFlightAtClose   \* history: requests that were being handled when stdin closed

bridgeVars == <<proc, stdinClosed, pendingRequests, nread, line, phase, promise, http, resp,
                microtasks, inLineLoop, output, needDrain, drainWaiters, settled,
                chunkOf, timedOut, inFlightAtClose>>

\* ------------------------------------------- the extension's endpoint: state
\* Number of HTTP requests the endpoint receives in one run; several can be
\* open at once (one connection each).
MaxCalls == 2

Call == 1..MaxCalls

\* The names of the tools array (api.js:37-175), which are the cases of callTool.
ToolNames ==
  {"listAccounts", "searchMessages", "getMessage", "sendMail", "listCalendars",
   "searchContacts", "replyToMessage", "forwardMessage", "markAsRead"}

\* call[k] before request k has arrived.
NoRequest ==
  [http |-> "", body |-> "", id |-> Absent, method |-> "", name |-> "", missing |-> "",
   env |-> ""]
\* httpResp[k] before anything was written.
NoOutcome ==
  [status |-> 0, json |-> FALSE, id |-> Absent, code |-> 0, payload |-> "", text |-> "",
   tools |-> <<>>]
\* toolResult[k] when no handler has returned.
NoResult == [returned |-> FALSE, error |-> "", success |-> FALSE]

VARIABLES
  call,          \* call[k]: the k-th HTTP request (NoRequest until it arrives)
  callPhase,     \* "none", "mime" (waiting for the MsgHdrToMimeMessage callback),
                 \* "done" (the async function has ended), "threw" (the path handler threw)
  asyncOpen,     \* res.processAsync() was called and res.finish() has not been yet
  finishes,      \* finishes[k]: number of res.finish() calls
  httpResp,      \* httpResp[k]: status line and body written to res
  toolResult,    \* toolResult[k]: what the tool's handler returned to callTool
  invoked,       \* invoked[k]: the handler callTool called, "" if none
  composeOpens,  \* composeOpens[k]: compose types handed to OpenComposeWindowWithParams
  flagsSet,      \* flagsSet[k]: number of msgHdr.markRead calls
  mimeParsed     \* mimeParsed[k]: "n/a", "yes", "no" (aMimeMsg was null)

serverVars == <<call, callPhase, asyncOpen, finishes, httpResp, toolResult, invoked,
                composeOpens, flagsSet, mimeParsed>>

\* No request has arrived.
ServerIdle ==
  /\ call = [k \in Call |-> NoRequest]
  /\ callPhase = [k \in Call |-> "none"]
  /\ asyncOpen = [k \in Call |-> FALSE]
  /\ finishes = [k \in Call |-> 0]
  /\ httpResp = [k \in Call |-> NoOutcome]
  /\ toolResult = [k \in Call |-> NoResult]
  /\ invoked = [k \in Call |-> ""]
  /\ composeOpens = [k \in Call |-> <<>>]
  /\ flagsSet = [k \in Call |-> 0]
  /\ mimeParsed = [k \in Call |-> "n/a"]

\* ------------------------------------------------ searchMessages: state
\* Number of messages one search enumerates.
MaxMsgs == 3

\* api.js:22-24 and the day in milliseconds of api.js:384.
DEFAULT_MAX_RESULTS == 50
MAX_SEARCH_RESULTS_CAP == 200
SEARCH_COLLECTION_CAP == 1000
MsPerDay == 86400000

\* A date argument: absent, a string Date cannot parse, a date without a time
\* ("2024-01-01" plus day days, parsed as midnight UTC), or a date with a time
\* after a "T" (ms milliseconds into that day).
NoDate == [kind |-> "absent", day |-> 0, ms |-> 0]
\* maxResults: absent, not a number ("abc"), Infinity, or the number
\* halves / 2.
NoMaxResults == [kind |-> "absent", halves |-> 0]
\* The arguments of a search without any optional argument.
NoSearchArgs ==
  [startDate |-> NoDate, endDate |-> NoDate, maxResults |-> NoMaxResults, sortOrder |-> ""]

VARIABLES
  searchArgs,    \* startDate, endDate, maxResults, sortOrder of the call
  searchPhase,   \* "scan" (traversal), "done" (searchMessages has returned)
  results,       \* const results: the collected records, in place
  scanLog,       \* history: every header enumerated, whether it passed the end
                 \* bound and whether it was collected
  returned       \* the array searchMessages returned

searchVars == <<searchArgs, searchPhase, results, scanLog, returned>>

SearchIdle ==
  /\ searchArgs = NoSearchArgs
  /\ searchPhase = "scan"
  /\ results = <<>>
  /\ scanLog = <<>>
  /\ returned = <<>>

\* ---------------------------------------------- folder traversal: state
\* Numbers of headers a folder of the traversal model holds (besides none).
SmallFolder == 500
LargeFolder == 700

\* The folders of the traversal model: account 1 (IMAP) has the root 1 with
\* the subfolders 2 (which has the subfolder 3) and 4, account 2 (IMAP) has
\* the root 5, account 3 (local folders) has the root 6.
Folders == 1..6

VARIABLES
  folderSize,    \* folderSize[f]: number of headers in folder f, all matching
  folderFault,   \* folderFault[f]: what is wrong with the message index of f, "" if nothing
  frames,        \* the calls of searchFolder in progress, innermost last
  account,       \* number of accounts the loop over the accounts has taken
  collected,     \* results.length
  examined,      \* history: number of headers whose fields were read
  refreshed,     \* history: folders on which updateFolder was called
  scanned,       \* history: folders whose msgDatabase was enumerated
  walkDone       \* the loop over the accounts has ended

walkVars == <<folderSize, folderFault, frames, account, collected, examined, refreshed,
              scanned, walkDone>>

WalkIdle ==
  /\ folderSize = [f \in Folders |-> 0]
  /\ folderFault = [f \in Folders |-> ""]
  /\ frames = <<>>
  /\ account = 0
  /\ collected = 0
  /\ examined = 0
  /\ refreshed = {}
  /\ scanned = {}
  /\ walkDone = FALSE

\* ------------------------------------------------- compose helpers: state
\* Longest lists of address entries in the recipients and in the CC header of
\* the original message, and longest list of attachment paths.
MaxAddrs == 2
MaxCcs == 1
MaxPaths == 2

\* mail before any compose call was made, and composed before it has ended:
\* the other fields come with the call.
NoMail == [tool |-> ""]
NoCompose == [done |-> FALSE]

VARIABLES
  mail,          \* the arguments of a compose call and what it finds in the profile
  composed       \* what the call gave the compose window and returned

composeVars == <<mail, composed>>

ComposeIdle ==
  /\ mail = NoMail
  /\ composed = NoCompose

\* ------------------------------------------------ sanitizeForJson: state
\* Longest input text, in UTF-16 code units.
MaxText == 2

VARIABLES
  original,      \* the text sanitizeForJson was first given, as UTF-16 code units
  sanitized,     \* the text after the passes made so far
  passes         \* number of times sanitizeForJson was applied

sanitizeVars == <<original, sanitized, passes>>

SanitizeIdle ==
  /\ original = <<>>
  /\ sanitized = <<>>
  /\ passes = 0

\* -------------------------------------------- response body recovery: state
\* Longest content of the string in a response body, in characters.
MaxBody == 3

VARIABLES
  data,          \* the content of the JSON string the response body consists of
  outcome        \* how the promise of forwardToThunderbird settled for it

recoverVars == <<data, outcome>>

NoParse == [state |-> "pending"]

RecoverIdle ==
  /\ data = <<>>
  /\ outcome = NoParse

\* ------------------------------------------------------ markAsRead: state
\* Longest list of message references, and the messages of the mailbox.
MaxRefs == 2
Messages == {"m1", "m2"}

VARIABLES
  markCall,      \* the arguments of markAsRead
  isRead,        \* isRead[m]: the read flag of message m
  markResults,   \* the results array
  markState      \* "none", "running", "returned"

markVars == <<markCall, isRead, markResults, markState>>

NoMarkCall == [given |-> FALSE]

MarkIdle ==
  /\ markCall = NoMarkCall
  /\ isRead = [m \in Messages |-> FALSE]
  /\ markResults = <<>>
  /\ markState = "none"

\* ---------------------------------------------------------- all variables
libVars == <<composeVars, sanitizeVars, recoverVars, markVars>>

LibIdle ==
  /\ ComposeIdle
  /\ SanitizeIdle
  /\ RecoverIdle
  /\ MarkIdle

extVars == <<serverVars, searchVars, walkVars, libVars>>
coreVars == <<bridgeVars, serverVars, searchVars, walkVars>>

vars == <<bridgeVars, extVars>>

\* The bridge before it has read anything.
BridgeIdle ==
  /\ proc = "running"
  /\ stdinClosed = FALSE
  /\ pendingRequests = 0
  /\ nread = 0
  /\ line = [r \in Req |-> BlankLine]
  /\ phase = [r \in Req |-> "unread"]
  /\ promise = [r \in Req |-> Pending]
  /\ http = [r \in Req |-> "none"]
  /\ resp = [r \in Req |-> NoHttpResp]
  /\ microtasks = <<>>
  /\ inLineLoop = FALSE
  /\ output = <<>>
  /\ needDrain = FALSE
  /\ drainWaiters = <<>>
  /\ settled = <<>>
  /\ chunkOf = [r \in Req |-> 0]
  /\ timedOut = {}
  /\ inFlightAtClose = {}


Init ==
  /\ LibIdle
  /\ BridgeIdle
  /\ ServerIdle
  /\ SearchIdle
  /\ WalkIdle

\* ------------------------------------------------- the extension's endpoint
\* What the path handler answers to a POST whose body is the JSON object m
\* (api.js:1002-1063). tool is what callTool does for a tools/call: "returns" or
\* "throws" (unknown tool, missing name, handler exception).
PathHandler(m, tool) ==
  IF m.method = "tools/list"
    THEN [status |-> 200, json |-> TRUE, id |-> m.id, code |-> 0, payload |-> "result"]
  ELSE IF m.method = "tools/call"
    THEN IF tool = "returns"
           THEN [status |-> 200, json |-> TRUE, id |-> m.id, code |-> 0, payload |-> "result"]
           ELSE [status |-> 200, json |-> TRUE, id |-> m.id, code |-> DispatchErrorCode,
                 payload |-> "error"]
  ELSE [status |-> 404, json |-> FALSE, id |-> Absent, code |-> 0,
        payload |-> "Unknown method"]

\* ----------------------------------------------------------------- bridge
\* checkExit's condition (mcp-bridge.cjs:23-27).
ShouldExitEither(closed, pending) == closed \/ pending = 0
ShouldExit(closed, pending) == closed /\ pending = 0

\* The local answer to initialize (mcp-bridge.cjs:59-68).
InitializePayload ==
  "protocolVersion=2024-11-05 capabilities={tools:{}} serverInfo=thunderbird-mcp/0.1.0"
InitializeResponseNullId(id) ==
  [kind |-> "initialize", id |-> Null, code |-> 0, payload |-> InitializePayload]
InitializeResponse(id) ==
  [kind |-> "initialize", id |-> id, code |-> 0, payload |-> InitializePayload]

\* The two methods handleMessage answers with null (mcp-bridge.cjs:70-74).
IsLocalNotificationInitOnly(method) == method = "notifications/initialized"
IsLocalNotification(method) ==
  method \in {"notifications/initialized", "notifications/cancelled"}

\* res.on('end'): the promise value for an HTTP response body
\* (mcp-bridge.cjs:97-109).
ParseBody(h) ==
  IF h.json
    THEN Resolved([kind |-> "envelope", id |-> ResponseIdAtBridge(h.id), code |-> h.code,
                   payload |-> h.payload])
    ELSE Rejected("Invalid JSON from Thunderbird")

\* The line the .then callback writes for a response (mcp-bridge.cjs:134-137):
\* JSON.stringify(response) + '\n' in one chunk.
ResponseChunk(r, v) ==
  [req |-> r, kind |-> v.kind, id |-> v.id, code |-> v.code, text |-> v.payload, nl |-> TRUE]

\* The line the .catch callback writes for an error (mcp-bridge.cjs:139-145).
ErrorChunkEchoId(r, e) ==
  [req |-> r, kind |-> "bridge-error", id |-> line[r].id, code |-> BridgeErrorCode,
   text |-> e, nl |-> TRUE]
ErrorChunk(r, e) ==
  [req |-> r, kind |-> "bridge-error", id |-> Null, code |-> BridgeErrorCode,
   text |-> e, nl |-> TRUE]

\* resolve()/reject() of a promise: only the first call settles it and queues
\* its reaction; a rejection first passes through .then (one more job) before
\* it reaches .catch (mcp-bridge.cjs:82, 133-139).
FirstJob(r, v) == [r |-> r, k |-> IF v.state = "resolved" THEN "then" ELSE "pass"]
SettleEveryCall(r, v, q) ==
  /\ promise' = [promise EXCEPT ![r] = v]
  /\ microtasks' = Append(q, FirstJob(r, v))
  /\ settled' = Append(settled, r)
Settle(r, v, q) ==
  IF promise[r].state = "pending"
    THEN /\ promise' = [promise EXCEPT ![r] = v]
         /\ microtasks' = Append(q, FirstJob(r, v))
         /\ settled' = Append(settled, r)
    ELSE /\ microtasks' = q
         /\ UNCHANGED <<promise, settled>>

\* The event loop takes its next callback (an I/O event, a timer, a signal)
\* only when no promise job is queued and no 'drain' is due: with the blocking
\* stdout of mcp-bridge.cjs:16-18 a write that returns false has already put
\* its data out, and its 'drain' is emitted on the next tick.
EventLoopIdle == microtasks = <<>> /\ ~needDrain

\* handleMessage(line) for a non-blank line (mcp-bridge.cjs:54-79).
HandleMessage(r, l) ==
  IF l.kind = "garbage"
    THEN Settle(r, Rejected("JSON.parse"), microtasks) /\ UNCHANGED http
  ELSE IF l.kind = "null"
    THEN Settle(r, Rejected("TypeError"), microtasks) /\ UNCHANGED http
  ELSE IF l.method = "initialize"
    THEN Settle(r, Resolved(InitializeResponse(l.id)), microtasks) /\ UNCHANGED http
  ELSE IF IsLocalNotification(l.method)
    THEN Settle(r, Resolved(NoResp), microtasks) /\ UNCHANGED http
  ELSE /\ http' = [http EXCEPT ![r] = "sent"]
       /\ UNCHANGED <<promise, microtasks, settled>>

\* rl.on('line') (mcp-bridge.cjs:129-150), up to the end of the synchronous
\* part of handleMessage. readline emits all lines of one input chunk in one
\* loop, before any promise job of an earlier line of that chunk runs.
ReadLine(l) ==
  /\ proc = "running"
  /\ ~stdinClosed
  /\ nread < MaxLines
  /\ EventLoopIdle \/ inLineLoop
  /\ LET r == nread + 1
         prev == IF r = 1 THEN 0 ELSE chunkOf[r - 1]
     IN /\ nread' = r
        /\ line' = [line EXCEPT ![r] = l]
        /\ chunkOf' = [chunkOf EXCEPT ![r] = IF inLineLoop THEN prev ELSE prev + 1]
        /\ IF l.kind = "blank"
             THEN /\ phase' = [phase EXCEPT ![r] = "blank"]
                  /\ UNCHANGED <<pendingRequests, promise, microtasks, settled, http>>
             ELSE /\ pendingRequests' = pendingRequests + 1
                  /\ phase' = [phase EXCEPT ![r] = "handling"]
                  /\ HandleMessage(r, l)
  /\ inLineLoop' = (microtasks' # <<>>)
  /\ UNCHANGED <<proc, stdinClosed, resp, output, needDrain, drainWaiters, timedOut,
     inFlightAtClose>>
  /\ UNCHANGED extVars

\* What process.stdout.write(data) can return (mcp-bridge.cjs:32): false when
\* the chunk has highWaterMark bytes or more. A line with a long id is that
\* long, a forwarded result can be (it carries message bodies), a local
\* answer with a short id and the bridge's own error line are not.
WriteAccepted(chunk) ==
  IF chunk.id.t = "longstr" THEN {FALSE}
  ELSE IF chunk.kind = "envelope" THEN BOOLEAN
  ELSE {TRUE}

\* writeOutput(data) (mcp-bridge.cjs:30-38): the chunk goes to stdout in one
\* write; if write() returned false the caller waits for 'drain'.
WriteOutputFront(r, chunk, ok, rest) ==
  /\ output' = <<chunk>> \o output
  /\ IF ok
       THEN /\ microtasks' = Append(rest, [r |-> r, k |-> "finally"])
            /\ UNCHANGED <<needDrain, drainWaiters, phase>>
       ELSE /\ microtasks' = rest
            /\ needDrain' = TRUE
            /\ drainWaiters' = Append(drainWaiters, r)
            /\ phase' = [phase EXCEPT ![r] = "draining"]
WriteOutput(r, chunk, ok, rest) ==
  /\ output' = Append(output, chunk)
  /\ IF ok
       THEN /\ microtasks' = Append(rest, [r |-> r, k |-> "finally"])
            /\ UNCHANGED <<needDrain, drainWaiters, phase>>
       ELSE /\ microtasks' = rest
            /\ needDrain' = TRUE
            /\ drainWaiters' = Append(drainWaiters, r)
            /\ phase' = [phase EXCEPT ![r] = "draining"]

\* .finally (mcp-bridge.cjs:146-149): pendingRequests--, checkExit().
FinallyKeepsCount(r, rest) ==
  /\ UNCHANGED pendingRequests
  /\ phase' = [phase EXCEPT ![r] = "done"]
  /\ microtasks' = rest
  /\ proc' = IF ShouldExit(stdinClosed, pendingRequests) THEN "exited" ELSE proc
  /\ UNCHANGED <<output, needDrain, drainWaiters>>
FinallyNoExit(r, rest) ==
  /\ pendingRequests' = pendingRequests - 1
  /\ phase' = [phase EXCEPT ![r] = "done"]
  /\ microtasks' = rest
  /\ UNCHANGED <<proc, output, needDrain, drainWaiters>>
Finally(r, rest) ==
  /\ pendingRequests' = pendingRequests - 1
  /\ phase' = [phase EXCEPT ![r] = "done"]
  /\ microtasks' = rest
  /\ proc' = IF ShouldExit(stdinClosed, pendingRequests - 1) THEN "exited" ELSE proc
  /\ UNCHANGED <<output, needDrain, drainWaiters>>

\* One promise reaction job of the chain
\* handleMessage(line).then(..).catch(..).finally(..) (mcp-bridge.cjs:133-149).
\* The short error line is always accepted by stdout.write (see WriteAccepted).
RunMicrotask ==
  /\ proc = "running"
  /\ microtasks # <<>>
  /\ LET job == Head(microtasks)
         rest == Tail(microtasks)
         r == job.r
     IN \/ /\ job.k = "then"
           /\ promise[r].resp.kind = "none"
           /\ microtasks' = Append(rest, [r |-> r, k |-> "finally"])
           /\ UNCHANGED <<proc, pendingRequests, phase, output, needDrain, drainWaiters>>
        \/ /\ job.k = "then"
           /\ promise[r].resp.kind # "none"
           /\ \E ok \in WriteAccepted(ResponseChunk(r, promise[r].resp)) :
                 WriteOutput(r, ResponseChunk(r, promise[r].resp), ok, rest)
           /\ UNCHANGED <<proc, pendingRequests>>
        \/ /\ job.k = "pass"
           /\ microtasks' = Append(rest, [r |-> r, k |-> "catch"])
           /\ UNCHANGED <<proc, pendingRequests, phase, output, needDrain, drainWaiters>>
        \/ /\ job.k = "catch"
           /\ \E ok \in WriteAccepted(ErrorChunk(r, promise[r].err)) :
                 WriteOutput(r, ErrorChunk(r, promise[r].err), ok, rest)
           /\ UNCHANGED <<proc, pendingRequests>>
        \/ /\ job.k = "finally"
           /\ Finally(r, rest)
  /\ inLineLoop' = FALSE
  /\ UNCHANGED <<stdinClosed, nread, line, promise, http, resp, settled, chunkOf, timedOut,
                 inFlightAtClose>>
  /\ UNCHANGED extVars

\* stdout emits 'drain': every waiting writeOutput resolves (mcp-bridge.cjs:35).
RECURSIVE FinallyJobs(_)
FinallyJobs(w) ==
  IF w = <<>> THEN <<>> ELSE <<[r |-> Head(w), k |-> "finally"]>> \o FinallyJobs(Tail(w))

Drain ==
  /\ proc = "running"
  /\ microtasks = <<>>
  /\ needDrain
  /\ needDrain' = FALSE
  /\ drainWaiters' = <<>>
  /\ microtasks' = FinallyJobs(drainWaiters)
  /\ phase' = [r \in Req |-> IF phase[r] = "draining" THEN "handling" ELSE phase[r]]
  /\ inLineLoop' = FALSE
  /\ UNCHANGED <<proc, stdinClosed, pendingRequests, nread, line, promise, http, resp,
                 output, settled, chunkOf, timedOut,
                 inFlightAtClose>>
  /\ UNCHANGED extVars

\* The extension handles the POST of request r (api.js:1002-1063; the body of
\* the POST is JSON.stringify(message)), its answer reaches the bridge and
\* res.on('end') runs (mcp-bridge.cjs:94-110).
ResponseEnd(r, tool) ==
  /\ proc = "running"
  /\ EventLoopIdle
  /\ http[r] = "sent"
  /\ LET h == PathHandler([method |-> line[r].method, id |-> RequestIdAtServer(line[r].id)],
                          tool)
     IN /\ resp' = [resp EXCEPT ![r] = h]
        /\ Settle(r, ParseBody(h), microtasks)
  /\ http' = [http EXCEPT ![r] = "closed"]
  /\ inLineLoop' = FALSE
  /\ UNCHANGED <<proc, stdinClosed, pendingRequests, nread, line, phase, output,
                 needDrain, drainWaiters, chunkOf, timedOut,
                 inFlightAtClose>>
  /\ UNCHANGED extVars

\* req.on('error') before any response (mcp-bridge.cjs:112-114).
ConnectionError(r) ==
  /\ proc = "running"
  /\ EventLoopIdle
  /\ http[r] = "sent"
  /\ http' = [http EXCEPT ![r] = "closed"]
  /\ Settle(r, Rejected("Connection failed"), microtasks)
  /\ inLineLoop' = FALSE
  /\ UNCHANGED <<proc, stdinClosed, pendingRequests, nread, line, phase, resp, output,
                 needDrain, drainWaiters, chunkOf, timedOut,
                 inFlightAtClose>>
  /\ UNCHANGED extVars

\* The 30 s timeout callback (mcp-bridge.cjs:116-119): req.destroy(), reject.
Timeout(r) ==
  /\ proc = "running"
  /\ EventLoopIdle
  /\ http[r] = "sent"
  /\ http' = [http EXCEPT ![r] = "aborted"]
  /\ timedOut' = timedOut \cup {r}
  /\ Settle(r, Rejected("Request to Thunderbird timed out"), microtasks)
  /\ inLineLoop' = FALSE
  /\ UNCHANGED <<proc, stdinClosed, pendingRequests, nread, line, phase, resp, output,
                 needDrain, drainWaiters, chunkOf, inFlightAtClose>>
  /\ UNCHANGED extVars

\* The 'error' event ("socket hang up") that req.destroy() causes on the
\* aborted request: req.on('error') rejects again (mcp-bridge.cjs:112-114).
AbortError(r) ==
  /\ proc = "running"
  /\ EventLoopIdle
  /\ http[r] = "aborted"
  /\ http' = [http EXCEPT ![r] = "closed"]
  /\ Settle(r, Rejected("Connection failed"), microtasks)
  /\ inLineLoop' = FALSE
  /\ UNCHANGED <<proc, stdinClosed, pendingRequests, nread, line, phase, resp, output,
                 needDrain, drainWaiters, chunkOf, timedOut,
                 inFlightAtClose>>
  /\ UNCHANGED extVars

\* rl.on('close') (mcp-bridge.cjs:152-155).
CloseInput ==
  /\ proc = "running"
  /\ ~stdinClosed
  /\ EventLoopIdle \/ inLineLoop
  /\ stdinClosed' = TRUE
  /\ proc' = IF ShouldExit(TRUE, pendingRequests) THEN "exited" ELSE proc
  /\ inFlightAtClose' = {r \in Req : phase[r] \in {"handling", "draining"}}
  /\ UNCHANGED <<pendingRequests, nread, line, phase, promise, http, resp, microtasks,
                 inLineLoop, output, needDrain, drainWaiters, settled, chunkOf, timedOut>>
  /\ UNCHANGED extVars

\* SIGINT / SIGTERM (mcp-bridge.cjs:157-158).
Signal ==
  /\ proc = "running"
  /\ EventLoopIdle
  /\ proc' = "killed"
  /\ UNCHANGED <<stdinClosed, pendingRequests, nread, line, phase, promise, http, resp,
                 microtasks, inLineLoop, output, needDrain, drainWaiters, settled, chunkOf,
                 timedOut, inFlightAtClose>>
  /\ UNCHANGED extVars

\* Everything the event loop does besides reading a line.
Step ==
  \/ RunMicrotask
  \/ Drain
  \/ \E r \in Req, tool \in {"returns", "throws"} : ResponseEnd(r, tool)
  \/ \E r \in Req : ConnectionError(r)
  \/ \E r \in Req : Timeout(r)
  \/ \E r \in Req : AbortError(r)
  \/ CloseInput
  \/ Signal

Next ==
  \/ \E l \in Lines : ReadLine(l)
  \/ Step

Spec == Init /\ [][Next]_vars

\* Fairness of the event loop: queued promise jobs run, 'drain' is emitted, and
\* every HTTP call ends (it is answered, fails, or its 30 s timer fires).
HttpCompletes(r) ==
  \/ \E tool \in {"returns", "throws"} : ResponseEnd(r, tool)
  \/ ConnectionError(r)
  \/ Timeout(r)

\* One line for every path through rl.on('line') and handleMessage: blank,
\* not JSON, answered locally (with a line long enough to wait for 'drain'),
\* answered with null, forwarded and answered, forwarded and answered 404.
LiveLines ==
  {BlankLine, GarbageLine,
   [kind |-> "object", method |-> "initialize", id |-> LongStrId],
   [kind |-> "object", method |-> "notifications/cancelled", id |-> Absent],
   [kind |-> "object", method |-> "tools/call", id |-> NumId(1)],
   [kind |-> "object", method |-> "notifications/progress", id |-> Absent]}

NextLive ==
  \/ \E l \in LiveLines : ReadLine(l)
  \/ Step

FairSpec ==
  /\ Init
  /\ [][NextLive]_vars
  /\ WF_vars(RunMicrotask)
  /\ WF_vars(Drain)
  /\ \A r \in Req : WF_vars(HttpCompletes(r))

\* ------------------------------------------------------------- vocabulary
\* The positions of the output lines written for request r.
LinesOf(r) == {i \in 1..Len(output) : output[i].req = r}

WasRead(r) == phase[r] # "unread"
InFlight(r) == phase[r] \in {"handling", "draining"}
IsObject(r) == WasRead(r) /\ line[r].kind = "object"

\* Position of request r in the order of settlement (0 if not settled).
SettledAt(r) ==
  IF \E i \in 1..Len(settled) : settled[i] = r
    THEN CHOOSE i \in 1..Len(settled) : settled[i] = r
    ELSE 0

\* -------------------------------------------------------------------- C1
\* C1: every input line that is forwarded and answered by the extension with a
\* JSON-RPC response gets exactly one output line, whose id equals the id of
\* the request.
C1_ForwardedAnswerKeepsId ==
  \A r \in Req :
    (phase[r] = "done" /\ http[r] = "closed" /\ resp[r].json /\ r \notin timedOut)
      => /\ Cardinality(LinesOf(r)) = 1
         /\ \A i \in LinesOf(r) : output[i].id = line[r].id

\* -------------------------------------------------------------------- C2
\* C2: a non-blank line whose handling failed (line not JSON, connection
\* failure, response body not JSON, ...) gets exactly one line, a JSON-RPC
\* error with code -32700 and id null, and never a result.
C2_FailureYieldsOneBridgeError ==
  \A r \in Req :
    promise[r].state = "rejected"
      => /\ Cardinality(LinesOf(r)) <= 1
         /\ phase[r] = "done" => Cardinality(LinesOf(r)) = 1
         /\ \A i \in LinesOf(r) :
              /\ output[i].kind = "bridge-error"
              /\ output[i].code = BridgeErrorCode
              /\ output[i].id = Null
              /\ output[i].nl

\* Two lines failed in different ways and both were answered.
C2_Witness ==
  \E r, s \in Req :
    /\ phase[r] = "done" /\ promise[r].err = "JSON.parse"
    /\ phase[s] = "done" /\ promise[s].err = "Invalid JSON from Thunderbird"
    /\ Len(output) = 2

\* -------------------------------------------------------------------- C3
\* C3: apart from SIGINT/SIGTERM the process exits only when the input stream
\* has closed and the in-flight counter is zero.
C3_ExitOnlyClosedAndIdle ==
  proc = "exited" => (stdinClosed /\ pendingRequests = 0)

\* The process exited after it had handled a forwarded request.
C3_Witness ==
  /\ proc = "exited"
  /\ \E r \in Req : phase[r] = "done" /\ http[r] = "closed"

\* -------------------------------------------------------------------- C4
NeedsLine(r) ==
  promise[r].state = "rejected"
    \/ (promise[r].state = "resolved" /\ promise[r].resp.kind # "none")

\* C4: when the input closes while requests are in flight, the response of
\* each of them is on the output before the process exits, and the process
\* does end once the input has closed (given FairSpec's fairness).
C4_InFlightAnsweredThenExit ==
  /\ [](proc = "exited" =>
          \A r \in inFlightAtClose :
            phase[r] = "done" /\ (NeedsLine(r) => Cardinality(LinesOf(r)) = 1))
  /\ ((stdinClosed /\ proc = "running") ~> (proc # "running"))

\* The input closed while a forwarded request was in flight, and the process
\* exited by itself after that request's line was written.
C4_Witness ==
  /\ proc = "exited"
  /\ \E r \in inFlightAtClose : http[r] = "closed" /\ Cardinality(LinesOf(r)) = 1

\* -------------------------------------------------------------------- C5
\* C5: while a write that was not accepted immediately still waits for its
\* drain signal, no other response write is attempted.
C5_NoWriteBeforeDrain ==
  [][needDrain => output' = output]_vars

\* -------------------------------------------------------------------- C6
IsLocal(r) == http[r] = "none"
IsErrorLine(i) == output[i].kind = "bridge-error"

\* C6 as stated: every output chunk is one whole line, and the lines are in the
\* order in which the handling of their requests produced its outcome (the
\* order in which the promises of handleMessage settled).
C6_LinesInCompletionOrder ==
  /\ \A i \in 1..Len(output) : output[i].nl
  /\ \A i, j \in 1..Len(output) :
       i < j => SettledAt(output[i].req) < SettledAt(output[j].req)

\* C6 as amended: every output chunk is one whole line, and the lines are in
\* the order of settlement except that the error line of a failed request is
\* written one promise job later than a result: it may follow the result of a
\* request that settled after it, when both were answered locally from lines
\* of the same input chunk.
C6_LinesInCallbackOrder ==
  /\ \A i \in 1..Len(output) : output[i].nl
  /\ \A i, j \in 1..Len(output) :
       i < j =>
         \/ SettledAt(output[i].req) < SettledAt(output[j].req)
         \/ /\ IsErrorLine(j) /\ ~IsErrorLine(i)
            /\ IsLocal(output[i].req) /\ IsLocal(output[j].req)
            /\ chunkOf[output[i].req] = chunkOf[output[j].req]

\* The request read second was answered before the forwarded, slower request
\* read first.
C6_Witness ==
  /\ Len(output) = 2
  /\ output[1].req = 2 /\ output[2].req = 1
  /\ http[1] = "closed" /\ ~IsErrorLine(2)

\* -------------------------------------------------------------------- C7
\* C7: a forwarded call whose timeout fired gets exactly one line, the error
\* naming the timeout (none for the socket error the abort causes), and the
\* in-flight counter is decremented once for it: the counter always equals
\* the number of lines being handled.
C7_TimeoutYieldsOneTimeoutError ==
  /\ \A r \in timedOut :
       /\ Cardinality(LinesOf(r)) <= 1
       /\ phase[r] = "done" => Cardinality(LinesOf(r)) = 1
       /\ \A i \in LinesOf(r) :
            /\ IsErrorLine(i)
            /\ output[i].text = "Request to Thunderbird timed out"
  /\ pendingRequests = Cardinality({r \in Req : InFlight(r)})

\* A call timed out, its error line was written, the 'error' event of the
\* aborted request arrived afterwards, and the counter is back at zero.
C7_Witness ==
  \E r \in timedOut :
    /\ phase[r] = "done"
    /\ http[r] = "closed"
    /\ Cardinality(LinesOf(r)) = 1
    /\ pendingRequests = 0

\* -------------------------------------------------------------------- C8
IsInertNotification(l) ==
  l.kind = "object"
    /\ l.method \in {"notifications/initialized", "notifications/cancelled"}

\* C8: for a notifications/initialized or notifications/cancelled line nothing
\* is written and no HTTP request is issued; reading such a line changes no
\* other request's HTTP call or promise, and a forwarded call that was handled
\* to its end has exactly one line.
C8_LocalNotificationsInert ==
  /\ [](\A r \in Req :
          /\ (WasRead(r) /\ IsInertNotification(line[r]))
               => (LinesOf(r) = {} /\ http[r] = "none")
          /\ (phase[r] = "done" /\ http[r] # "none") => Cardinality(LinesOf(r)) = 1)
  /\ [][\A r \in Req :
          (~WasRead(r) /\ WasRead(r)' /\ IsInertNotification(line'[r]))
            => /\ output' = output
               /\ \A s \in Req \ {r} : http'[s] = http[s] /\ promise'[s] = promise[s]]_vars

\* notifications/cancelled arrived while the forwarded call of line 1 was in
\* flight (it settled before that call did); the call was answered once.
C8_Witness ==
  /\ line[2].kind = "object" /\ line[2].method = "notifications/cancelled"
  /\ phase[1] = "done" /\ phase[2] = "done"
  /\ settled = <<2, 1>>
  /\ promise[1].state = "resolved" /\ http[1] = "closed"
  /\ Cardinality(LinesOf(1)) = 1 /\ LinesOf(2) = {}

\* -------------------------------------------------------------------- C9
\* C9: a message without an id (a notification), whatever its method, is never
\* answered: no line is written for it.
C9_NoIdNeverAnswered ==
  \A r \in Req :
    (IsObject(r) /\ line[r].id = Absent) => LinesOf(r) = {}

\* ------------------------------------------------------------------- C10
\* C10: an initialize request is answered by the bridge itself: no HTTP
\* request, exactly one line, with the request's id and the fixed payload.
C10_InitializeAnsweredLocally ==
  \A r \in Req :
    (IsObject(r) /\ line[r].method = "initialize")
      => /\ http[r] = "none"
         /\ Cardinality(LinesOf(r)) <= 1
         /\ phase[r] = "done" => Cardinality(LinesOf(r)) = 1
         /\ \A i \in LinesOf(r) :
              /\ output[i].kind = "initialize"
              /\ output[i].id = line[r].id
              /\ output[i].text = InitializePayload

\* initialize was answered although the forwarded call read before it could
\* not reach the extension.
C10_Witness ==
  /\ IsObject(2) /\ line[2].method = "initialize" /\ line[2].id = NumId(1)
  /\ phase[2] = "done" /\ Cardinality(LinesOf(2)) = 1
  /\ promise[1].err = "Connection failed"

\* --------------------------------------------------------------- C29
\* The handling of line r is complete: its promise has settled, no reaction
\* of its chain is queued and its write does not wait for 'drain'.
HandlingComplete(r) ==
  /\ promise[r].state # "pending"
  /\ \A i \in 1..Len(microtasks) : microtasks[i].r # r
  /\ \A i \in 1..Len(drainWaiters) : drainWaiters[i] # r

\* C29: pendingRequests is never negative and is the number of non-blank
\* lines read whose handling, the write of the response included, is not
\* complete; a blank line is not counted and nothing is written for it.
C29_PendingCountsLinesInFlight ==
  /\ pendingRequests >= 0
  /\ pendingRequests =
       Cardinality({r \in Req : WasRead(r) /\ line[r].kind # "blank" /\ ~HandlingComplete(r)})
  /\ \A i \in 1..Len(output) : line[output[i].req].kind # "blank"

\* A forwarded request was counted, its line was written and it is counted no
\* more; the blank line read after it was never counted and wrote nothing.
C29_Witness ==
  /\ nread = 2
  /\ line[1].kind = "object" /\ http[1] = "closed" /\ HandlingComplete(1)
  /\ LinesOf(1) # {}
  /\ line[2].kind = "blank" /\ phase[2] = "blank"
  /\ pendingRequests = 0
  /\ Len(output) = 1

\* ======================================================================
\* The extension's endpoint (api.js): the path handler, callTool and the
\* tool handlers, one slot k per HTTP request.
\* ======================================================================

\* ------------------------------------------------------------- requests
\* What a handler finds when it looks up (folderPath, messageId), and what
\* else decides its path:
\*   "ok"            everything is there
\*   "noFolder"      getFolderForURL returned null
\*   "noDb"          folder.msgDatabase is null
\*   "noMsg"         no header of the folder has the messageId
\*   "lookupThrows"  the folder lookup threw
\*   "noCal"         the calendar module could not be imported (cal is null)
\*   "composeThrows" the compose service threw before opening a window
\*   "notString"     arguments.query is a number
LookupEnvs == {"ok", "noFolder", "noDb", "noMsg", "lookupThrows"}
EnvOf(name) ==
  CASE name = "listAccounts" -> {"ok"}
    [] name \in {"searchMessages", "searchContacts"} -> {"ok", "notString"}
    [] name = "listCalendars" -> {"ok", "noCal"}
    [] name = "sendMail" -> {"ok", "composeThrows"}
    [] OTHER -> LookupEnvs

\* One field that the tool's inputSchema declares required (api.js:57, 70,
\* 89, 107, 128, 148, 172), to be left out of the arguments; "" for none.
RequiredField(name) ==
  CASE name \in {"searchMessages", "searchContacts"} -> "query"
    [] name = "getMessage" -> "folderPath"
    [] name \in {"sendMail", "forwardMessage"} -> "to"
    [] name = "replyToMessage" -> "body"
    [] name = "markAsRead" -> "messages"
    [] OTHER -> ""
MissingOf(name) == {"", RequiredField(name)}

\* ids of the requests sent to the endpoint.
ServerIds == {Absent, NumId(1)}

\* A tools/call of a known tool. Without folderPath the lookup cannot find a
\* folder; without query there is no query that could be a number; without
\* messages nothing is looked up.
ToolCalls ==
  {q \in [http : {"POST"}, body : {"object"}, id : {NumId(1)}, method : {"tools/call"},
          name : ToolNames, missing : {"", "query", "folderPath", "to", "body", "messages"},
          env : LookupEnvs \cup {"noCal", "composeThrows", "notString"}] :
     /\ q.env \in EnvOf(q.name)
     /\ q.missing \in MissingOf(q.name)
     /\ q.missing = "folderPath" => q.env \in {"noFolder", "lookupThrows"}
     /\ q.missing \in {"query", "messages"} => q.env = "ok"}

\* Every HTTP request of the model: not a POST; a POST whose body is not JSON,
\* is the JSON literal null, is another JSON value that is not an object; a
\* JSON-RPC message with a known or unknown method, without a tool name, with
\* an unknown tool name, or calling a known tool.
HttpRequests ==
  {[NoRequest EXCEPT !.http = "GET"]}
    \cup {[NoRequest EXCEPT !.http = "POST", !.body = b] : b \in {"garbage", "null", "scalar"}}
    \cup [http : {"POST"}, body : {"object"}, id : ServerIds,
          method : {"tools/list", "resources/list"}, name : {""}, missing : {""}, env : {""}]
    \cup [http : {"POST"}, body : {"object"}, id : ServerIds, method : {"tools/call"},
          name : {"", "deleteMessage"}, missing : {""}, env : {""}]
    \cup ToolCalls

\* ------------------------------------------------------------- handlers
\* What a handler (or its callback) did: it returned a result (error is the
\* result's error field, "" if it has none; success its success field), it
\* threw, or it waits for the MsgHdrToMimeMessage callback. opens are the
\* compose types of the windows it opened, flags the number of markRead calls.
Returns(error, success, opens, flags) ==
  [kind |-> "returns", error |-> error, success |-> success, opens |-> opens,
   flags |-> flags]
Throws(error) ==
  [kind |-> "throws", error |-> error, success |-> FALSE, opens |-> <<>>, flags |-> 0]
Awaits == [kind |-> "awaits", error |-> "", success |-> FALSE, opens |-> <<>>, flags |-> 0]

\* msgComposeParams.type (api.js:650, 784, 915).
NativeComposeType(name) ==
  CASE name = "replyToMessage" -> "Reply"
    [] name = "forwardMessage" -> "ForwardInline"
    [] OTHER -> "New"
ComposeType(name) == "New"

\* The lookup of folder, database and header that getMessage, replyToMessage,
\* forwardMessage and markAsRead start with (api.js:523-547, 678-702, 815-839,
\* 944-965): the error it ends with, "" if the header was found.
LookupError(env) ==
  CASE env = "noFolder" -> "Folder not found"
    [] env = "noDb" -> "Could not access folder database"
    [] env = "noMsg" -> "Message not found"
    [] env = "lookupThrows" -> "exception"
    [] OTHER -> ""

listAccounts(q) == Returns("", FALSE, <<>>, 0)

\* (query || "").toLowerCase() (api.js:378) and query.toLowerCase()
\* (api.js:472) throw a TypeError for a number.
searchMessages(q) ==
  IF q.env = "notString" THEN Throws("TypeError") ELSE Returns("", FALSE, <<>>, 0)
searchContacts(q) ==
  IF q.env = "notString" THEN Throws("TypeError") ELSE Returns("", FALSE, <<>>, 0)

listCalendars(q) ==
  IF q.env = "noCal" THEN Returns("Calendar not available", FALSE, <<>>, 0)
  ELSE Returns("", FALSE, <<>>, 0)

\* getMessage up to the call of MsgHdrToMimeMessage (api.js:521-553).
getMessage(q) ==
  IF LookupError(q.env) # "" THEN Returns(LookupError(q.env), FALSE, <<>>, 0) ELSE Awaits
\* The callback of getMessage (api.js:553-608).
getMessageCallback(parsed) ==
  IF ~parsed THEN Returns("Could not parse message", FALSE, <<>>, 0)
  ELSE Returns("", FALSE, <<>>, 0)

\* composeMail (api.js:624-667): absent fields become "" and the window opens.
composeMail(q) ==
  IF q.env = "composeThrows" THEN Returns("exception", FALSE, <<>>, 0)
  ELSE Returns("", TRUE, <<ComposeType(q.name)>>, 0)

\* replyToMessage and forwardMessage up to the call of MsgHdrToMimeMessage
\* (api.js:676-709, 813-846).
replyToMessage(q) ==
  IF LookupError(q.env) # "" THEN Returns(LookupError(q.env), FALSE, <<>>, 0) ELSE Awaits
forwardMessage(q) ==
  IF LookupError(q.env) # "" THEN Returns(LookupError(q.env), FALSE, <<>>, 0) ELSE Awaits
\* Their callbacks (api.js:709-801, 846-932): a null aMimeMsg only leaves the
\* quoted body empty; an exception of the compose service is caught.
composeCallback(q, parsed, composeOk) ==
  IF ~composeOk THEN Returns("exception", FALSE, <<>>, 0)
  ELSE Returns("", TRUE, <<ComposeType(q.name)>>, 0)

\* markAsRead (api.js:940-973) for arguments.messages with one reference, or
\* without messages (args.messages || []).
markAsRead(q) ==
  IF q.missing = "messages" THEN Returns("", FALSE, <<>>, 0)
  ELSE IF LookupError(q.env) # "" THEN Returns(LookupError(q.env), FALSE, <<>>, 0)
  ELSE Returns("", TRUE, <<>>, 1)

\* callTool(name, args) (api.js:975-998).
callTool(q) ==
  CASE q.name = "listAccounts" -> listAccounts(q)
    [] q.name = "searchMessages" -> searchMessages(q)
    [] q.name = "getMessage" -> getMessage(q)
    [] q.name = "searchContacts" -> searchContacts(q)
    [] q.name = "listCalendars" -> listCalendars(q)
    [] q.name = "sendMail" -> composeMail(q)
    [] q.name = "replyToMessage" -> replyToMessage(q)
    [] q.name = "forwardMessage" -> forwardMessage(q)
    [] q.name = "markAsRead" -> markAsRead(q)
    [] OTHER -> Throws("Unknown tool")

\* ---------------------------------------------------------- path handler
\* The text responses (api.js:1005-1009, 1015-1019, 1042-1046).
TextResponse(status, text) ==
  [status |-> status, json |-> FALSE, id |-> Absent, code |-> 0, payload |-> "",
   text |-> text, tools |-> <<>>]
\* res.write(JSON.stringify({jsonrpc, id, result})) (api.js:1048-1051); text is
\* the error field of the tool's result inside content[0].text.
ResultResponse(id, text) ==
  [status |-> 200, json |-> TRUE, id |-> id, code |-> 0, payload |-> "result",
   text |-> text, tools |-> <<>>]
\* The names of the descriptors of the tools array (api.js:37-175), in order.
toolsWithoutMarkAsRead ==
  <<"listAccounts", "searchMessages", "getMessage", "sendMail", "listCalendars",
    "searchContacts", "replyToMessage", "forwardMessage">>
tools ==
  <<"listAccounts", "searchMessages", "getMessage", "sendMail", "listCalendars",
    "searchContacts", "replyToMessage", "forwardMessage", "markAsRead">>
\* The answer to tools/list: result = { tools } (api.js:1028-1030, 1048-1051).
ListResponse(id) == [ResultResponse(id, "") EXCEPT !.tools = tools]
\* The catch block (api.js:1052-1060).
ErrorResponseNullId(id, message) ==
  [status |-> 200, json |-> TRUE, id |-> Null, code |-> DispatchErrorCode,
   payload |-> "error", text |-> message, tools |-> <<>>]
ErrorResponse(id, message) ==
  [status |-> 200, json |-> TRUE, id |-> id, code |-> DispatchErrorCode,
   payload |-> "error", text |-> message, tools |-> <<>>]

\* What the async function writes once callTool has settled with o
\* (api.js:1035-1061).
RespondErrorAsRpcError(q, o) ==
  IF o.kind = "returns" /\ o.error = "" THEN ResultResponse(q.id, o.error)
  ELSE ErrorResponse(q.id, o.error)
Respond(q, o) ==
  IF o.kind = "returns" THEN ResultResponse(q.id, o.error) ELSE ErrorResponse(q.id, o.error)

\* The request's slot once the async function has ended with res.finish().
Finish(k, q, o, h) ==
  /\ callPhase' = [callPhase EXCEPT ![k] = "done"]
  /\ asyncOpen' = [asyncOpen EXCEPT ![k] = FALSE]
  /\ finishes' = [finishes EXCEPT ![k] = @ + 1]
  /\ httpResp' = [httpResp EXCEPT ![k] = h]
  /\ toolResult' = [toolResult EXCEPT ![k] =
                      IF o.kind = "returns"
                        THEN [returned |-> TRUE, error |-> o.error, success |-> o.success]
                        ELSE NoResult]
  /\ composeOpens' = [composeOpens EXCEPT ![k] = @ \o o.opens]
  /\ flagsSet' = [flagsSet EXCEPT ![k] = @ + o.flags]

\* A request that never reaches callTool.
NoCall == [kind |-> "none", error |-> "", success |-> FALSE, opens |-> <<>>, flags |-> 0]

\* The path handler for request q (api.js:1002-1063), with everything that
\* runs before the event loop takes another callback: the handler itself, the
\* async function up to its await, a handler that returns without waiting for a
\* callback, and the rest of the async function.
HttpRequest(k, q) ==
  /\ callPhase[k] = "none"
  /\ IF k = 1 THEN TRUE ELSE callPhase[k - 1] # "none"
  /\ call' = [call EXCEPT ![k] = q]
  /\ mimeParsed' = mimeParsed
  /\ IF q.http # "POST"
       THEN /\ Finish(k, q, NoCall, TextResponse(405, "POST only"))
            /\ UNCHANGED invoked
     ELSE IF q.body = "garbage"
       THEN /\ Finish(k, q, NoCall, TextResponse(400, "Invalid JSON"))
            /\ UNCHANGED invoked
     ELSE IF q.body = "null"
       \* const { id, method, params } = message (api.js:1022) throws a TypeError
       \* for null, after res.processAsync() and outside every try.
       THEN /\ callPhase' = [callPhase EXCEPT ![k] = "threw"]
            /\ asyncOpen' = [asyncOpen EXCEPT ![k] = TRUE]
            /\ UNCHANGED <<finishes, httpResp, toolResult, invoked, composeOpens, flagsSet>>
     ELSE IF q.body = "scalar" \/ q.method \notin {"tools/list", "tools/call"}
       THEN /\ Finish(k, q, NoCall, TextResponse(404, "Unknown method"))
            /\ UNCHANGED invoked
     ELSE IF q.method = "tools/list"
       THEN /\ Finish(k, q, NoCall, ListResponse(q.id))
            /\ UNCHANGED invoked
     ELSE IF q.name = ""
       THEN /\ Finish(k, q, NoCall, ErrorResponse(q.id, "Missing tool name"))
            /\ UNCHANGED invoked
     ELSE LET o == callTool(q)
          IN /\ invoked' = [invoked EXCEPT ![k] =
                            IF o.kind = "throws" /\ o.error = "Unknown tool" THEN "" ELSE q.name]
             /\ IF o.kind = "awaits"
                  THEN /\ callPhase' = [callPhase EXCEPT ![k] = "mime"]
                       /\ asyncOpen' = [asyncOpen EXCEPT ![k] = TRUE]
                       /\ UNCHANGED <<finishes, httpResp, toolResult, composeOpens, flagsSet>>
                  ELSE Finish(k, q, o, Respond(q, o))
  /\ UNCHANGED <<bridgeVars, searchVars, walkVars, libVars>>

\* The callback given to MsgHdrToMimeMessage runs (api.js:553-608, 709-801,
\* 846-932), the handler's promise resolves and the async function ends.
MimeCallback(k, parsed, composeOk) ==
  /\ callPhase[k] = "mime"
  /\ LET q == call[k]
         o == IF q.name = "getMessage" THEN getMessageCallback(parsed)
              ELSE composeCallback(q, parsed, composeOk)
     IN Finish(k, q, o, Respond(q, o))
  /\ mimeParsed' = [mimeParsed EXCEPT ![k] = IF parsed THEN "yes" ELSE "no"]
  /\ UNCHANGED <<call, invoked>>
  /\ UNCHANGED <<bridgeVars, searchVars, walkVars, libVars>>

ServerNext ==
  \/ \E k \in Call, q \in HttpRequests : HttpRequest(k, q)
  \/ \E k \in Call, parsed \in BOOLEAN, composeOk \in BOOLEAN : MimeCallback(k, parsed, composeOk)

ServerInit ==
  /\ LibIdle
  /\ BridgeIdle
  /\ ServerIdle
  /\ SearchIdle
  /\ WalkIdle

ServerSpec == ServerInit /\ [][ServerNext]_vars

\* ------------------------------------------------- vocabulary of the claims
\* The async function of request k has ended, or the path handler threw.
Ended(k) == callPhase[k] \in {"done", "threw"}
IsToolCall(k) == call[k].body = "object" /\ call[k].method = "tools/call"
IsKnownToolCall(k) == IsToolCall(k) /\ call[k].name \in ToolNames
\* The response is a JSON-RPC result whose content text has an error field.
IsResultWithError(k) ==
  /\ httpResp[k].status = 200
  /\ httpResp[k].json
  /\ httpResp[k].payload = "result"
  /\ httpResp[k].code = 0
  /\ toolResult[k].returned
  /\ toolResult[k].error # ""
  /\ httpResp[k].text = toolResult[k].error
\* The failures of the lookup and of the calendar.
LookupFailed(k) == call[k].env \in {"noFolder", "noDb", "noMsg"}
CalendarUnavailable(k) == call[k].env = "noCal"
NotParseable(k) == mimeParsed[k] = "no"

\* --------------------------------------------------------------- C11
\* C11 as stated: for a tools/call of a known tool, each of the failures folder
\* not found, message not found, folder database inaccessible, message not
\* parseable and calendar unavailable is answered with a JSON-RPC result whose
\* content text carries an error field, never with a JSON-RPC error object,
\* and no compose window was opened.
C11_FailureIsResultWithError ==
  \A k \in Call :
    (/\ callPhase[k] = "done"
     /\ IsKnownToolCall(k)
     /\ LookupFailed(k) \/ CalendarUnavailable(k) \/ NotParseable(k))
      => IsResultWithError(k) /\ composeOpens[k] = <<>>

\* C11 as the code has it: the same for folder not found, message not found,
\* folder database inaccessible, calendar unavailable and, in getMessage,
\* message not parseable. In replyToMessage and forwardMessage a message that
\* cannot be parsed is no failure: the answer is still a JSON-RPC result, and
\* unless the compose service throws it reports success with one window opened.
C11_FailureIsResultWithErrorUnlessQuoted ==
  \A k \in Call :
    (callPhase[k] = "done" /\ IsKnownToolCall(k)) =>
      /\ (\/ LookupFailed(k)
          \/ CalendarUnavailable(k)
          \/ NotParseable(k) /\ call[k].name = "getMessage")
           => IsResultWithError(k) /\ composeOpens[k] = <<>>
      /\ (NotParseable(k) /\ call[k].name \in {"replyToMessage", "forwardMessage"})
           => /\ httpResp[k].payload = "result"
              /\ toolResult[k].returned
              /\ toolResult[k].error = ""
                   => toolResult[k].success /\ Len(composeOpens[k]) = 1

\* A reply to a message that is not in the folder and a getMessage of a message
\* that cannot be parsed have both been answered with an error inside a result.
C11_Witness ==
  \E k1, k2 \in Call :
    /\ callPhase[k1] = "done" /\ call[k1].name = "replyToMessage"
    /\ call[k1].env = "noMsg" /\ IsResultWithError(k1) /\ composeOpens[k1] = <<>>
    /\ callPhase[k2] = "done" /\ call[k2].name = "getMessage"
    /\ NotParseable(k2) /\ IsResultWithError(k2)

\* --------------------------------------------------------------- C12
\* C12: a tools/call with an unknown tool name or without a name invokes no
\* handler and is answered with HTTP 200 and a JSON-RPC error object with code
\* -32000, the request's id and a message naming the failure.
C12_UnknownToolIsDispatchError ==
  \A k \in Call :
    (callPhase[k] = "done" /\ IsToolCall(k) /\ call[k].name \notin ToolNames) =>
      /\ invoked[k] = ""
      /\ ~toolResult[k].returned
      /\ composeOpens[k] = <<>> /\ flagsSet[k] = 0
      /\ httpResp[k].status = 200
      /\ httpResp[k].json
      /\ httpResp[k].payload = "error"
      /\ httpResp[k].code = DispatchErrorCode
      /\ httpResp[k].id = call[k].id
      /\ httpResp[k].text = IF call[k].name = "" THEN "Missing tool name" ELSE "Unknown tool"

\* An unknown tool and a missing name have both been answered, with id 1.
C12_Witness ==
  \E k1, k2 \in Call :
    /\ callPhase[k1] = "done" /\ IsToolCall(k1) /\ call[k1].name = "deleteMessage"
    /\ call[k1].id = NumId(1) /\ httpResp[k1].code = DispatchErrorCode
    /\ callPhase[k2] = "done" /\ IsToolCall(k2) /\ call[k2].name = ""
    /\ call[k2].id = NumId(1) /\ httpResp[k2].text = "Missing tool name"

\* --------------------------------------------------------------- C13
\* C13: a request with an unknown method is answered with a JSON-RPC error
\* object with code -32000 and the request's id, and that is what the bridge
\* reads from the response body and hands to its client.
C13_UnknownMethodIsDispatchError ==
  \A k \in Call :
    (/\ callPhase[k] = "done"
     /\ call[k].body = "object"
     /\ call[k].method \notin {"tools/list", "tools/call"})
      => /\ httpResp[k].json
         /\ httpResp[k].code = DispatchErrorCode
         /\ httpResp[k].id = call[k].id
         /\ ParseBody(httpResp[k]).state = "resolved"
         /\ ParseBody(httpResp[k]).resp.code = DispatchErrorCode

\* --------------------------------------------------------------- C14
\* C14: whatever the request, once the path handler and its async function
\* have ended the response has been finished exactly once and is not left
\* open.
C14_ResponseFinishedOnce ==
  \A k \in Call : Ended(k) => finishes[k] = 1 /\ ~asyncOpen[k]

\* --------------------------------------------------------------- C15
\* C15: a tools/call that omits a required field is rejected with an error and
\* performs no action (no compose window, no flag change).
C15_MissingRequiredRejected ==
  \A k \in Call :
    (callPhase[k] = "done" /\ IsKnownToolCall(k) /\ call[k].missing # "") =>
      /\ httpResp[k].payload = "error" \/ toolResult[k].error # ""
      /\ composeOpens[k] = <<>>
      /\ flagsSet[k] = 0

\* --------------------------------------------------------------- C16
\* C16: sendMail, replyToMessage and forwardMessage open at most one compose
\* window per call, always of type New, and do nothing else to the mail store;
\* a call that reports success opened exactly one window, a call that reports
\* folder not found or message not found opened none.
IsComposeCall(k) ==
  IsToolCall(k) /\ call[k].name \in {"sendMail", "replyToMessage", "forwardMessage"}
C16_ComposeOpensOneNewWindow ==
  \A k \in Call :
    IsComposeCall(k) =>
      /\ Len(composeOpens[k]) <= 1
      /\ \A i \in 1..Len(composeOpens[k]) : composeOpens[k][i] = "New"
      /\ flagsSet[k] = 0
      /\ (callPhase[k] = "done" /\ toolResult[k].success) => Len(composeOpens[k]) = 1
      /\ (callPhase[k] = "done" /\ call[k].env \in {"noFolder", "noMsg"})
           => composeOpens[k] = <<>> /\ toolResult[k].error # ""
      /\ callPhase[k] # "done" => composeOpens[k] = <<>>

\* A reply has opened its window and reported success, and a forward of a
\* message in an unknown folder has ended without a window.
C16_Witness ==
  \E k1, k2 \in Call :
    /\ callPhase[k1] = "done" /\ call[k1].name = "replyToMessage"
    /\ toolResult[k1].success /\ composeOpens[k1] = <<"New">>
    /\ callPhase[k2] = "done" /\ call[k2].name = "forwardMessage"
    /\ call[k2].env = "noFolder" /\ composeOpens[k2] = <<>>

\* --------------------------------------------------------------- C27
NamesOf(ts) == {ts[i] : i \in 1..Len(ts)}
IsToolsList(k) ==
  callPhase[k] = "done" /\ call[k].body = "object" /\ call[k].method = "tools/list"

Micros(ms) == [ms |-> ms, us |-> 0]
TsLess(a, b) == a.ms < b.ms \/ (a.ms = b.ms /\ a.us < b.us)

\* new Date(s).getTime() of a usable date string (api.js:380-381).
ParsedDate(d) == d.day * MsPerDay + d.ms
\* Number.isFinite(parsedStartDate), Number.isFinite(parsedEndDate).
IsUsableDate(d) == d.kind \in {"date", "datetime"}
NullTs == [null |-> TRUE, ts |-> Micros(0)]
\* startDateTs (api.js:382).
StartDateTs(d) ==
  IF IsUsableDate(d) THEN [null |-> FALSE, ts |-> Micros(ParsedDate(d))] ELSE NullTs
\* endDateOffset (api.js:384): a day for a string without "T".
EndDateOffset(d) == IF d.kind \in {"date", "invalid"} THEN MsPerDay ELSE 0
\* endDateTs (api.js:385).
EndDateTs(d) ==
  IF IsUsableDate(d)
    THEN [null |-> FALSE, ts |-> Micros(ParsedDate(d) + EndDateOffset(d))]
    ELSE NullTs

\* --------------------------------------------------------------- limit
Min(a, b) == IF a < b THEN a ELSE b
\* effectiveLimit (api.js:386-390): Number(maxResults) is finite and positive
\* only for a number above 0; Math.floor of halves/2 is halves \div 2.
EffectiveLimit(m) ==
  Min(IF m.kind = "num" /\ m.halves > 0 THEN m.halves \div 2 ELSE DEFAULT_MAX_RESULTS,
      MAX_SEARCH_RESULTS_CAP)

\* normalizedSortOrder (api.js:391).
NormalizedSortOrderLax(sortOrder) == IF sortOrder = "desc" THEN "desc" ELSE "asc"
NormalizedSortOrder(sortOrder) == IF sortOrder = "asc" THEN "asc" ELSE "desc"

\* ---------------------------------------------------------------- inputs
DateOnly(day) == [kind |-> "date", day |-> day, ms |-> 0]
StartDates == {NoDate, DateOnly(0)}
\* No end date, 2024-01-01, 2024-01-01T23:59:59Z, or "yesterday".
EndDates ==
  {NoDate, DateOnly(0), [kind |-> "datetime", day |-> 0, ms |-> 86399000],
   [kind |-> "invalid", day |-> 0, ms |-> 0]}
\* Absent, "abc", Infinity, -1, 0, 0.5, 1, 1.5, 2, 200, 201.
MaxResultsInputs ==
  {NoMaxResults, [kind |-> "nan", halves |-> 0], [kind |-> "inf", halves |-> 0]}
    \cup [kind : {"num"}, halves : {-2, 0, 1, 2, 3, 4, 400, 402}]
SortOrders == {"", "asc", "desc", "ASC"}
\* Every maxResults and sortOrder without dates, and every pair of dates with
\* maxResults absent or 2 and sortOrder absent or "asc".
SearchArgs ==
  [startDate : {NoDate}, endDate : {NoDate}, maxResults : MaxResultsInputs,
   sortOrder : SortOrders]
    \cup [startDate : StartDates, endDate : EndDates,
          maxResults : {NoMaxResults, [kind |-> "num", halves |-> 4]},
          sortOrder : {"", "asc"}]

\* The headers a folder can hold: msgHdr.date at 2023-12-31T23:59:59Z,
\* 2024-01-01T23:59:00Z, 2024-01-01T23:59:59Z, 2024-01-02T00:00:00Z,
\* 2024-01-02T00:00:01Z, all matching the query, and one at
\* 2024-01-01T23:59:00Z that does not match it.
Headers ==
  [dateTs : {Micros(0 - 1000), Micros(86340000), Micros(86399000), Micros(86400000),
             Micros(86401000)},
   matches : {TRUE}]
    \cup {[dateTs |-> Micros(86340000), matches |-> FALSE]}

\* ------------------------------------------------------------------ scan
\* The date and text filters of one header (api.js:420-429).
PassesStart(args, hdr) ==
  StartDateTs(args.startDate).null \/ ~TsLess(hdr.dateTs, StartDateTs(args.startDate).ts)
PassesEnd(args, hdr) ==
  EndDateTs(args.endDate).null \/ ~TsLess(EndDateTs(args.endDate).ts, hdr.dateTs)
Collects(args, hdr) == PassesStart(args, hdr) /\ PassesEnd(args, hdr) /\ hdr.matches

\* One turn of the loop over db.enumerateMessages() (api.js:410-444).
Examine(hdr) ==
  /\ searchPhase = "scan"
  /\ Len(scanLog) < MaxMsgs
  /\ Len(results) < SEARCH_COLLECTION_CAP
  /\ LET kept == Collects(searchArgs, hdr)
         n == Len(scanLog) + 1
     IN /\ scanLog' = Append(scanLog, [dateTs |-> hdr.dateTs, kept |-> kept,
                                       endOk |-> PassesEnd(searchArgs, hdr)])
        /\ results' = IF kept
                        THEN Append(results, [id |-> n, dateTs |-> hdr.dateTs, key |-> TRUE])
                        ELSE results
  /\ UNCHANGED <<searchArgs, searchPhase, returned>>
  /\ UNCHANGED <<bridgeVars, serverVars, walkVars, libVars>>

\* ---------------------------------------------------------- sort and cut
\* The comparator of results.sort (api.js:462) is positive: a goes after b.
ComesAfter(a, b, order) ==
  IF order = "asc" THEN TsLess(b.dateTs, a.dateTs) ELSE TsLess(a.dateTs, b.dateTs)

\* Array.prototype.sort is stable: a record goes behind every record already
\* placed that does not have to come after it.
RECURSIVE InsertSorted(_, _, _)
InsertSorted(sorted, x, order) ==
  IF sorted = <<>> THEN <<x>>
  ELSE IF ComesAfter(Head(sorted), x, order) THEN <<x>> \o sorted
  ELSE <<Head(sorted)>> \o InsertSorted(Tail(sorted), x, order)
RECURSIVE Sort(_, _)
Sort(seq, order) ==
  IF seq = <<>> THEN <<>>
  ELSE InsertSorted(Sort(SubSeq(seq, 1, Len(seq) - 1), order), seq[Len(seq)], order)

\* results.slice(0, effectiveLimit) (api.js:464).
Slice(seq, limit) == SubSeq(seq, 1, Min(limit, Len(seq)))

\* The end of searchMessages (api.js:462-467): sort in place, cut, delete the
\* sort key of the records that are returned.
SearchReturn ==
  /\ searchPhase = "scan"
  /\ LET sorted == Sort(results, NormalizedSortOrder(searchArgs.sortOrder))
         cut == Slice(sorted, EffectiveLimit(searchArgs.maxResults))
         out == [i \in 1..Len(cut) |-> [cut[i] EXCEPT !.key = FALSE]]
     IN /\ returned' = out
        /\ results' = [i \in 1..Len(sorted) |-> IF i <= Len(out) THEN out[i] ELSE sorted[i]]
  /\ searchPhase' = "done"
  /\ UNCHANGED <<searchArgs, scanLog>>
  /\ UNCHANGED <<bridgeVars, serverVars, walkVars, libVars>>

SearchInit ==
  /\ LibIdle
  /\ BridgeIdle
  /\ ServerIdle
  /\ WalkIdle
  /\ searchArgs \in SearchArgs
  /\ searchPhase = "scan"
  /\ results = <<>>
  /\ scanLog = <<>>
  /\ returned = <<>>

SearchNext ==
  \/ \E hdr \in Headers : Examine(hdr)
  \/ SearchReturn

SearchSpec == SearchInit /\ [][SearchNext]_vars

\* --------------------------------------------------------------- C17
\* C17: for every maxResults the effective limit is an integer from 1 to 200,
\* it is 50 when maxResults is absent or unusable (not a number, not finite,
\* zero or negative), and no more records than the limit are returned.
C17_EffectiveLimitInRange ==
  searchPhase = "done" =>
    LET m == searchArgs.maxResults
        limit == EffectiveLimit(m)
    IN /\ limit \in 1..MAX_SEARCH_RESULTS_CAP
       /\ (m.kind # "num" \/ m.halves <= 0) => limit = DEFAULT_MAX_RESULTS
       /\ Len(returned) <= limit

\* --------------------------------------------------------------- C18
\* Record a stands before record b in the order the claim describes: by date
\* (newest first unless sortOrder is exactly "asc"), ties in traversal order.
Precedes(a, b) ==
  IF searchArgs.sortOrder = "asc"
    THEN TsLess(a.dateTs, b.dateTs) \/ (a.dateTs = b.dateTs /\ a.id < b.id)
    ELSE TsLess(b.dateTs, a.dateTs) \/ (a.dateTs = b.dateTs /\ a.id < b.id)

\* C18: searchMessages returns the first L records (L the effective limit) of
\* the collected matches in that order: the returned list is ordered, it has
\* min(L, number collected) records, every record left out stands behind all
\* returned ones, and no returned record carries the sort key.
C18_ReturnsFirstSorted ==
  searchPhase = "done" =>
    LET limit == EffectiveLimit(searchArgs.maxResults)
        kept == {i \in 1..Len(scanLog) : scanLog[i].kept}
        out == {returned[i].id : i \in 1..Len(returned)}
    IN /\ Len(results) = Cardinality(kept)
       /\ Len(returned) = Min(limit, Cardinality(kept))
       /\ Cardinality(out) = Len(returned)
       /\ out \subseteq kept
       /\ \A i \in 1..Len(returned) :
            /\ returned[i].dateTs = scanLog[returned[i].id].dateTs
            /\ ~returned[i].key
       /\ \A i, j \in 1..Len(returned) : i < j => Precedes(returned[i], returned[j])
       /\ \A n \in kept \ out : \A i \in 1..Len(returned) :
            Precedes(returned[i], [id |-> n, dateTs |-> scanLog[n].dateTs])

\* Three records were collected and maxResults = 2 returned two of them with
\* the same date in traversal order, leaving out an older one enumerated first.
C18_Witness ==
  /\ searchPhase = "done"
  /\ searchArgs.sortOrder = ""
  /\ Len(results) = 3
  /\ Len(returned) = 2
  /\ returned[1].dateTs = returned[2].dateTs
  /\ returned[1].id = 2 /\ returned[2].id = 3

\* --------------------------------------------------------------- C20
\* C20: with an endDate that has no time component, a header passes the end
\* bound if its date is no later than 23:59:59 of that day, and does not pass
\* it if its date lies in the following day or later.
C20_EndDateInclusiveThroughEndOfDay ==
  \A i \in 1..Len(scanLog) :
    searchArgs.endDate.kind = "date" =>
      LET day == searchArgs.endDate.day
          ts == scanLog[i].dateTs
      IN /\ ~TsLess(Micros(day * MsPerDay + 86399000), ts) => scanLog[i].endOk
         /\ ~TsLess(ts, Micros((day + 1) * MsPerDay)) => ~scanLog[i].endOk

\* ======================================================================
\* The traversal of searchMessages (api.js:393-460) over a folder tree, with
\* the collected records counted, every header matching the query.
\* ======================================================================

\* account.incomingServer.rootFolder of the accounts, in order (api.js:457-459).
RootFolders == <<1, 5, 6>>
\* folder.subFolders (api.js:449-450).
SubFolders(f) ==
  CASE f = 1 -> <<2, 4>>
    [] f = 2 -> <<3>>
    [] OTHER -> <<>>
\* folder.server.type === "imap" (api.js:399).
IsImap(f) == f # 6

\* results.length >= SEARCH_COLLECTION_CAP (api.js:394, 411, 451, 458).
CapExceeded(n) == n > SEARCH_COLLECTION_CAP
CapReached(n) == n >= SEARCH_COLLECTION_CAP

\* A call of searchFolder(f): pc is "enter", "scan" (the loop over the
\* headers, i of them taken) or "subfolders" (the loop over the subfolders,
\* c of them taken).
Frame(f) == [f |-> f, pc |-> "enter", i |-> 0, c |-> 0]
Top == frames[Len(frames)]
SetTop(fr) == [frames EXCEPT ![Len(frames)] = fr]
Pop == SubSeq(frames, 1, Len(frames) - 1)

\* The loop over the accounts (api.js:457-460), after which the records are
\* sorted.
NextAccount ==
  /\ ~walkDone
  /\ frames = <<>>
  /\ IF account < Len(RootFolders) /\ ~CapReached(collected)
       THEN /\ account' = account + 1
            /\ frames' = <<Frame(RootFolders[account + 1])>>
            /\ UNCHANGED walkDone
       ELSE /\ walkDone' = TRUE
            /\ UNCHANGED <<account, frames>>
  /\ UNCHANGED <<folderSize, folderFault, collected, examined, refreshed, scanned>>
  /\ UNCHANGED <<bridgeVars, serverVars, searchVars, libVars>>

\* What can be wrong with the message index of a folder (api.js:399-408, 445):
\*   "refreshThrows"  folder.updateFolder(null) throws; caught at api.js:402
\*   "accessThrows"   folder.msgDatabase or db.enumerateMessages() throws;
\*                    caught at api.js:445
\*   "noDb"           folder.msgDatabase is null: the return of api.js:408
FolderFaults == {"refreshThrows", "accessThrows", "noDb"}

\* The start of searchFolder (api.js:394-408, 445-447): return at the cap, else
\* refresh an IMAP folder and open its database. The return for a folder
\* without database leaves searchFolder; the catch block goes on to the
\* subfolders.
EnterFolder ==
  /\ frames # <<>>
  /\ Top.pc = "enter"
  /\ IF CapReached(collected)
       THEN /\ frames' = Pop
            /\ UNCHANGED <<refreshed, scanned>>
       ELSE /\ refreshed' = IF IsImap(Top.f) THEN refreshed \cup {Top.f} ELSE refreshed
            /\ IF folderFault[Top.f] = "noDb"
                 THEN /\ frames' = Pop
                      /\ UNCHANGED scanned
               ELSE IF folderFault[Top.f] = "accessThrows"
                 THEN /\ frames' = SetTop([Top EXCEPT !.pc = "subfolders"])
                      /\ UNCHANGED scanned
               ELSE /\ scanned' = scanned \cup {Top.f}
                    /\ frames' = SetTop([Top EXCEPT !.pc = "scan"])
  /\ UNCHANGED <<folderSize, folderFault, account, collected, examined, walkDone>>
  /\ UNCHANGED <<bridgeVars, serverVars, searchVars, libVars>>

\* One turn of the loop over the headers that reads a header and collects it
\* (api.js:410-444).
ExamineHeader ==
  /\ frames # <<>>
  /\ Top.pc = "scan"
  /\ Top.i < folderSize[Top.f]
  /\ ~CapReached(collected)
  /\ examined' = examined + 1
  /\ collected' = collected + 1
  /\ frames' = SetTop([Top EXCEPT !.i = @ + 1])
  /\ UNCHANGED <<folderSize, folderFault, account, refreshed, scanned, walkDone>>
  /\ UNCHANGED <<bridgeVars, serverVars, searchVars, libVars>>

\* The loop over the headers ends: no header is left, or the break at the cap
\* (api.js:411).
EndScan ==
  /\ frames # <<>>
  /\ Top.pc = "scan"
  /\ Top.i >= folderSize[Top.f] \/ CapReached(collected)
  /\ frames' = SetTop([Top EXCEPT !.pc = "subfolders"])
  /\ UNCHANGED <<folderSize, folderFault, account, collected, examined, refreshed, scanned,
                 walkDone>>
  /\ UNCHANGED <<bridgeVars, serverVars, searchVars, libVars>>

\* The loop over the subfolders (api.js:449-454), and the return of
\* searchFolder when it ends.
NextSubFolder ==
  /\ frames # <<>>
  /\ Top.pc = "subfolders"
  /\ IF Top.c < Len(SubFolders(Top.f)) /\ ~CapReached(collected)
       THEN frames' = Append(SetTop([Top EXCEPT !.c = @ + 1]),
                             Frame(SubFolders(Top.f)[Top.c + 1]))
       ELSE frames' = Pop
  /\ UNCHANGED <<folderSize, folderFault, account, collected, examined, refreshed, scanned,
                 walkDone>>
  /\ UNCHANGED <<bridgeVars, serverVars, searchVars, libVars>>

\* The folders whose message index is at fault in some mailbox of the model:
\* a root with subfolders, a folder with one subfolder, a root without.
FaultyFolders == {1, 2, 5}

\* A mailbox: every folder of the IMAP accounts is empty, small or large and
\* every message index is sound, or one folder's message index is at fault
\* and every folder is empty or small.
WalkInit ==
  /\ LibIdle
  /\ BridgeIdle
  /\ ServerIdle
  /\ SearchIdle
  /\ \/ /\ folderSize \in {s \in [Folders -> {0, SmallFolder, LargeFolder}] : s[6] = 0}
        /\ folderFault = [f \in Folders |-> ""]
     \/ /\ folderSize \in {s \in [Folders -> {0, SmallFolder}] : s[6] = 0}
        /\ \E g \in FaultyFolders, x \in FolderFaults :
              folderFault = [f \in Folders |-> IF f = g THEN x ELSE ""]
  /\ frames = <<>>
  /\ account = 0
  /\ collected = 0
  /\ examined = 0
  /\ refreshed = {}
  /\ scanned = {}
  /\ walkDone = FALSE

WalkNext ==
  \/ NextAccount
  \/ EnterFolder
  \/ ExamineHeader
  \/ EndScan
  \/ NextSubFolder

WalkSpec == WalkInit /\ [][WalkNext]_vars

\* --------------------------------------------------------------- C19
\* C19: the collected set never holds more than 1000 records, and once it
\* holds 1000 no further header is examined and no further folder is
\* refreshed or scanned.
C19_CapStopsTraversal ==
  /\ [](collected <= SEARCH_COLLECTION_CAP)
  /\ [][collected >= SEARCH_COLLECTION_CAP =>
          /\ examined' = examined
          /\ refreshed' = refreshed
          /\ scanned' = scanned
          /\ collected' = collected]_vars

\* The traversal has ended at the cap inside folder 2, whose remaining headers,
\* subfolder 3, sibling 4 and the other accounts' roots were all left alone.
C19_Witness ==
  /\ walkDone
  /\ collected = SEARCH_COLLECTION_CAP
  /\ examined = SEARCH_COLLECTION_CAP
  /\ folderSize[1] + folderSize[2] > SEARCH_COLLECTION_CAP
  /\ folderSize[3] > 0 /\ folderSize[4] > 0 /\ folderSize[5] > 0
  /\ scanned = {1, 2}
  /\ refreshed = {1, 2}

\* --------------------------------------------------------------- C21
\* C21: a folder whose message index cannot be used (its refresh throws, the
\* access to it throws, or it has no message database) is skipped without
\* ending the traversal: when the traversal ends below the cap, every folder
\* with a usable message index has been scanned, the subfolders of the folder
\* at fault and the folders of the later accounts included.
C21_BadFolderIsSkipped ==
  (walkDone /\ ~CapReached(collected)) =>
     \A f \in Folders : folderFault[f] \in {"", "refreshThrows"} => f \in scanned

\* ======================================================================
\* What composeMail and the callback of replyToMessage hand to the compose
\* window (api.js:297-336, 359-374, 624-667, 709-801). Texts are sequences
\* of characters.
\* ======================================================================

\* ------------------------------------------------------------ texts
\* String.prototype.toLowerCase on the letters of the model.
LowerChar(c) ==
  CASE c = "A" -> "a"
    [] c = "B" -> "b"
    [] c = "M" -> "m"
    [] c = "N" -> "n"
    [] c = "I" -> "i"
    [] OTHER -> c
ToLowerCase(t) == [i \in 1..Len(t) |-> LowerChar(t[i])]

\* String.prototype.trim.
RECURSIVE Trim(_)
Trim(t) ==
  IF t = <<>> THEN t
  ELSE IF Head(t) = " " THEN Trim(Tail(t))
  ELSE IF t[Len(t)] = " " THEN Trim(SubSeq(t, 1, Len(t) - 1))
  ELSE t

\* Array.prototype.join.
RECURSIVE Join(_, _)
Join(ts, sep) ==
  IF ts = <<>> THEN <<>>
  ELSE IF Len(ts) = 1 THEN ts[1]
  ELSE ts[1] \o sep \o Join(Tail(ts), sep)

\* ------------------------------------------------ reply-all recipients
\* Where a match of /(?:[^,"]|"[^"]*")+/ that starts at position i of t ends
\* (the position after its last character): a character other than comma
\* and quote is taken, a quote only together with everything up to the next
\* quote.
RECURSIVE MatchEnd(_, _)
MatchEnd(t, i) ==
  IF i > Len(t) THEN i
  ELSE IF t[i] \notin {",", "\""} THEN MatchEnd(t, i + 1)
  ELSE IF t[i] = "\"" /\ \E j \in (i + 1)..Len(t) : t[j] = "\""
    THEN MatchEnd(t, 1 + CHOOSE j \in (i + 1)..Len(t) :
                           /\ t[j] = "\""
                           /\ \A k \in (i + 1)..(j - 1) : t[k] # "\"")
  ELSE i

\* The matches of the global regular expression from position i on; a
\* character at which no match starts is passed over.
RECURSIVE MatchesFrom(_, _)
MatchesFrom(t, i) ==
  IF i > Len(t) THEN <<>>
  ELSE LET e == MatchEnd(t, i)
       IN IF e = i THEN MatchesFrom(t, i + 1)
          ELSE <<SubSeq(t, i, e - 1)>> \o MatchesFrom(t, e)

\* Every comma ends an entry.
RECURSIVE SplitEveryComma(_)
SplitEveryComma(t) ==
  IF t = <<>> THEN <<>>
  ELSE LET commas == {i \in 1..Len(t) : t[i] = ","}
       IN IF commas = {} THEN <<t>>
          ELSE LET c == CHOOSE i \in commas : \A j \in commas : i <= j
               IN (IF c = 1 THEN <<>> ELSE <<SubSeq(t, 1, c - 1)>>)
                    \o SplitEveryComma(SubSeq(t, c + 1, Len(t)))

\* splitAddresses (api.js:733).
splitAddressesNaive(t) == SplitEveryComma(t)
splitAddresses(t) == MatchesFrom(t, 1)

\* extractEmail (api.js:734): the text between the first "<" and the next
\* ">" when at least one character is between them, else the trimmed entry;
\* in lower case.
extractEmail(t) ==
  LET opens == {i \in 1..Len(t) :
                  /\ t[i] = "<"
                  /\ i + 1 <= Len(t)
                  /\ t[i + 1] # ">"
                  /\ \E j \in (i + 2)..Len(t) : t[j] = ">"}
  IN IF opens = {} THEN ToLowerCase(Trim(t))
     ELSE LET i == CHOOSE x \in opens : \A y \in opens : x <= y
              j == CHOOSE x \in (i + 2)..Len(t) :
                     /\ t[x] = ">"
                     /\ \A k \in (i + 2)..(x - 1) : t[k] # ">"
          IN ToLowerCase(SubSeq(t, i + 1, j - 1))

\* uniqueRecipients (api.js:745-751): filter by a set of the addresses seen.
RECURSIVE Unique(_, _)
Unique(rs, seen) ==
  IF rs = <<>> THEN <<>>
  ELSE IF extractEmail(Head(rs)) \in seen THEN Unique(Tail(rs), seen)
  ELSE <<Head(rs)>> \o Unique(Tail(rs), seen \cup {extractEmail(Head(rs))})

\* allRecipients (api.js:738-743) for the header texts recipients and ccList
\* and the own address.
RECURSIVE TrimAndFilter(_, _)
TrimAndFilter(ts, ownEmail) ==
  IF ts = <<>> THEN <<>>
  ELSE LET r == Trim(Head(ts))
       IN IF r # <<>> /\ (ownEmail = <<>> \/ extractEmail(r) # ownEmail)
            THEN <<r>> \o TrimAndFilter(Tail(ts), ownEmail)
            ELSE TrimAndFilter(Tail(ts), ownEmail)
AllRecipients(recipients, ccList, own) ==
  TrimAndFilter(splitAddresses(recipients) \o splitAddresses(ccList), ToLowerCase(own))

\* composeFields.cc of a reply (api.js:729-760); cc is the cc argument.
ReplyCc(replyAll, recipients, ccList, own, cc) ==
  IF cc # <<>> THEN cc
  ELSE IF replyAll
    THEN Join(Unique(AllRecipients(recipients, ccList, own), {}), <<",", " ">>)
  ELSE <<>>

\* ---------------------------------------------------------- attachments
\* What nsIFile finds for a path of the model: a file, no file, or
\* initWithPath throws (a relative path).
Paths == {"/tmp/a.txt", "/tmp/gone.txt", "rel.txt"}
FileState(path) ==
  CASE path = "/tmp/a.txt" -> "exists"
    [] path = "/tmp/gone.txt" -> "missing"
    [] OTHER -> "throws"

\* One turn of the loop of addAttachments (api.js:317-332).
AttachOneDropMissing(result, path) ==
  IF FileState(path) = "exists" THEN [result EXCEPT !.added = @ + 1]
  ELSE IF FileState(path) = "missing" THEN result
  ELSE [result EXCEPT !.failed = Append(@, path)]
AttachOne(result, path) ==
  IF FileState(path) = "exists" THEN [result EXCEPT !.added = @ + 1]
  ELSE [result EXCEPT !.failed = Append(@, path)]

RECURSIVE AttachAll(_, _)
AttachAll(result, paths) ==
  IF paths = <<>> THEN result ELSE AttachAll(AttachOne(result, Head(paths)), Tail(paths))

\* addAttachments (api.js:314-336); attachments is absent, a string, or an
\* array of paths.
addAttachments(attachments) ==
  IF attachments.kind # "array" THEN [added |-> 0, failed |-> <<>>]
  ELSE AttachAll([added |-> 0, failed |-> <<>>], attachments.paths)

\* ------------------------------------------------------------ identities
\* The profile: account 1 (server 1) has the identities 1 and 2 and the
\* default identity 1; account 2 (server 2, local folders) has no identity;
\* account 3 (server 3) has the identity 3. Server 4 belongs to no account.
\* 0 stands for null.
IdentityKey(n) == <<"i", "d", CASE n = 1 -> "1" [] n = 2 -> "2" [] OTHER -> "3">>
IdentityEmail(n) == CASE n = 1 -> <<"m">> [] n = 2 -> <<"N">> [] OTHER -> <<"b">>
Accounts ==
  <<[server |-> 1, identities |-> <<1, 2>>, defaultIdentity |-> 1],
    [server |-> 2, identities |-> <<>>, defaultIdentity |-> 0],
    [server |-> 3, identities |-> <<3>>, defaultIdentity |-> 3]>>

\* The identities in the order the loops of findIdentity visit them.
RECURSIVE IdentitiesOf(_)
IdentitiesOf(accounts) ==
  IF accounts = <<>> THEN <<>> ELSE Head(accounts).identities \o IdentitiesOf(Tail(accounts))

\* findIdentity (api.js:297-308).
findIdentity(emailOrId) ==
  IF emailOrId = <<>> THEN 0
  ELSE LET all == IdentitiesOf(Accounts)
           hits == {i \in 1..Len(all) :
                      \/ IdentityKey(all[i]) = emailOrId
                      \/ ToLowerCase(IdentityEmail(all[i])) = ToLowerCase(emailOrId)}
       IN IF hits = {} THEN 0
          ELSE all[CHOOSE i \in hits : \A j \in hits : i <= j]

\* MailServices.accounts.findAccountForServer.
FindAccountForServer(server) ==
  IF \E a \in 1..Len(Accounts) : Accounts[a].server = server
    THEN CHOOSE a \in 1..Len(Accounts) : Accounts[a].server = server
    ELSE 0

\* setComposeIdentity (api.js:359-374): msgComposeParams.identity (0 when it
\* is left unset) and the warning returned.
setComposeIdentity(from, fallbackServer, defaultAccount) ==
  LET identity == findIdentity(from)
      found == FindAccountForServer(fallbackServer)
  IN IF identity # 0 THEN [identity |-> identity, warning |-> <<>>]
     ELSE [identity |->
             IF fallbackServer # 0
               THEN IF found # 0 THEN Accounts[found].defaultIdentity ELSE 0
             ELSE IF defaultAccount # 0 THEN Accounts[defaultAccount].defaultIdentity
             ELSE 0,
           warning |->
             IF from # <<>> THEN <<"unknown identity: ">> \o from \o <<", using default">>
             ELSE <<>>]

\* ---------------------------------------------------------------- calls
\* The address entries of the headers of the original message: the text of
\* an entry and the address it stands for.
Entries == 1..6
EntryText(e) ==
  CASE e = 1 -> <<"a">>
    [] e = 2 -> <<"A">>
    [] e = 3 -> <<"\"", "D", ",", "J", "\"", " ", "<", "b", ">">>
    [] e = 4 -> <<"b">>
    [] e = 5 -> <<"m">>
    [] OTHER -> <<"N", " ", "<", "M", ">">>
EntryAddr(e) ==
  CASE e \in {1, 2} -> <<"a">>
    [] e \in {3, 4} -> <<"b">>
    [] OTHER -> <<"m">>

\* msgHdr.recipients and msgHdr.ccList for a list of entries.
HeaderText(es) == Join([i \in 1..Len(es) |-> EntryText(es[i])], <<",", " ">>)

SeqsUpTo(S, n) == UNION {[1..k -> S] : k \in 0..n}

\* The from arguments: absent, the key of identity 2, that key in upper
\* case, the email of identity 2 in lower case, an unknown address.
Froms == {<<>>, <<"i", "d", "2">>, <<"I", "D", "2">>, <<"n">>, <<"z">>}

AttachmentArgs ==
  {[kind |-> "absent", paths |-> <<>>], [kind |-> "string", paths |-> <<>>]}
    \cup [kind : {"array"}, paths : SeqsUpTo(Paths, MaxPaths)]

\* The entries of the CC header: an address of the recipients again, the
\* address of a quoted recipient, and the own address with a display name.
CcEntries == {1, 4, 6}

\* The compose calls of the model: replies that differ in the headers of the
\* original message, replies that differ in the identity, and calls that
\* differ in the attachments.
Mails ==
  [tool : {"replyToMessage"}, replyAll : {TRUE}, recipients : SeqsUpTo(Entries, MaxAddrs),
   ccList : SeqsUpTo(CcEntries, MaxCcs), own : {<<>>, <<"m">>}, cc : {<<>>},
   attachments : {[kind |-> "absent", paths |-> <<>>]}, from : {<<>>}, server : {1},
   defaultAccount : {1}]
    \cup [tool : {"replyToMessage"}, replyAll : BOOLEAN, recipients : {<<1, 3>>},
          ccList : {<<1>>}, own : {<<"m">>}, cc : {<<>>, <<"z">>},
          attachments : {[kind |-> "absent", paths |-> <<>>]}, from : Froms,
          server : 1..4, defaultAccount : {0, 1, 3}]
    \cup [tool : {"replyToMessage"}, replyAll : {FALSE}, recipients : {<<1>>},
          ccList : {<<>>}, own : {<<"m">>}, cc : {<<>>}, attachments : AttachmentArgs,
          from : {<<>>}, server : {1}, defaultAccount : {1}]
    \cup [tool : {"sendMail"}, replyAll : {FALSE}, recipients : {<<>>}, ccList : {<<>>},
          own : {<<>>}, cc : {<<>>, <<"z">>}, attachments : AttachmentArgs,
          from : Froms, server : {0}, defaultAccount : {0, 1, 3}]

\* The end of a compose call: the window is opened and success returned
\* (api.js:650-663, 784-797).
Opened(cc, att, id) ==
  [done |-> TRUE, cc |-> cc, added |-> att.added, failed |-> att.failed,
   identity |-> id.identity, opened |-> 1, success |-> TRUE, warning |-> id.warning,
   failedNamed |-> att.failed]

\* composeMail (api.js:624-667).
ComposeMail(m) ==
  /\ mail = NoMail
  /\ m.tool = "sendMail"
  /\ mail' = m
  /\ composed' = Opened(m.cc, addAttachments(m.attachments),
                        setComposeIdentity(m.from, 0, m.defaultAccount))
  /\ UNCHANGED <<coreVars, sanitizeVars, recoverVars, markVars>>

\* The callback of replyToMessage (api.js:709-801) for a message in a folder
\* of m.server; the own address is the email of the default identity of the
\* folder's account.
ReplyCallback(m) ==
  /\ mail = NoMail
  /\ m.tool = "replyToMessage"
  /\ mail' = m
  /\ composed' = Opened(ReplyCc(m.replyAll, HeaderText(m.recipients), HeaderText(m.ccList),
                                m.own, m.cc),
                        addAttachments(m.attachments),
                        setComposeIdentity(m.from, m.server, m.defaultAccount))
  /\ UNCHANGED <<coreVars, sanitizeVars, recoverVars, markVars>>

ComposeInit ==
  /\ BridgeIdle
  /\ ServerIdle
  /\ SearchIdle
  /\ WalkIdle
  /\ LibIdle

ComposeNext ==
  \/ \E m \in Mails : ComposeMail(m)
  \/ \E m \in Mails : ReplyCallback(m)

ComposeSpec == ComposeInit /\ [][ComposeNext]_vars

\* --------------------------------------------------------------- C22
\* The entries of a list whose address is not own and does not repeat the
\* address of an earlier entry, in order.
RECURSIVE FirstOfEachAddress(_, _, _)
FirstOfEachAddress(es, own, seen) ==
  IF es = <<>> THEN <<>>
  ELSE IF EntryAddr(Head(es)) = own \/ EntryAddr(Head(es)) \in seen
    THEN FirstOfEachAddress(Tail(es), own, seen)
  ELSE <<Head(es)>> \o FirstOfEachAddress(Tail(es), own, seen \cup {EntryAddr(Head(es))})

\* C22: in a reply-all without cc argument the CC field holds the entries of
\* the original recipients followed by those of the original CC, an entry
\* with a comma inside its quoted display name kept whole, without the
\* entries of the own address and without the entries whose address, compared
\* without regard to case, an earlier entry has; in the order of first
\* appearance.
C22_ReplyAllCcIsDedupedUnion ==
  (composed.done /\ mail.tool = "replyToMessage" /\ mail.replyAll /\ mail.cc = <<>>) =>
     composed.cc = HeaderText(FirstOfEachAddress(mail.recipients \o mail.ccList,
                                                 mail.own, {}))

\* The spec's example: recipients a, "D,J" <b>; CC a; own address m. The CC
\* field is a, "D,J" <b>.
C22_Witness ==
  /\ composed.done
  /\ mail.tool = "replyToMessage" /\ mail.replyAll /\ mail.cc = <<>>
  /\ mail.recipients = <<1, 3>> /\ mail.ccList = <<1>> /\ mail.own = <<"m">>
  /\ composed.cc = <<"a", ",", " ", "\"", "D", ",", "J", "\"", " ", "<", "b", ">">>

\* --------------------------------------------------------------- C23
IsFailingPath(path) == FileState(path) # "exists"

\* C23: for a list of n attachment paths, added plus the length of failed is
\* n and failed holds exactly the paths that do not exist or raise an error,
\* in the order of the list; the compose window is opened once and success
\* returned whatever failed, and the returned message names every failed path.
C23_AttachmentFailuresReported ==
  (composed.done /\ mail.attachments.kind = "array") =>
     /\ composed.added + Len(composed.failed) = Len(mail.attachments.paths)
     /\ composed.failed = SelectSeq(mail.attachments.paths, IsFailingPath)
     /\ composed.opened = 1
     /\ composed.success
     /\ composed.failedNamed = SelectSeq(mail.attachments.paths, IsFailingPath)

\* One valid and one missing path: {added: 1, failed: [the missing path]}.
C23_Witness ==
  /\ composed.done
  /\ mail.attachments = [kind |-> "array", paths |-> <<"/tmp/a.txt", "/tmp/gone.txt">>]
  /\ composed.added = 1
  /\ composed.failed = <<"/tmp/gone.txt">>
  /\ composed.failedNamed = <<"/tmp/gone.txt">>
  /\ composed.success

\* --------------------------------------------------------------- C24
\* The identity a from argument of the model names: identity 2 by its key or
\* by its email in another case; none otherwise.
NamedIdentity(from) ==
  IF from \in {<<"i", "d", "2">>, <<"n">>} THEN 2 ELSE 0
\* The default identity of account a, 0 if there is no such account or it has
\* no default identity.
DefaultIdentityOf(a) == IF a = 0 THEN 0 ELSE Accounts[a].defaultIdentity

\* C24: the identity of the composed message is the identity the from
\* argument names when it names one; otherwise the default identity of the
\* account that owns the folder of the original message; otherwise the
\* default identity of the global default account. A from argument that names
\* no identity leaves the window opened and is reported as a warning.
C24_IdentityResolvedInThreeSteps ==
  composed.done =>
     LET target == DefaultIdentityOf(FindAccountForServer(mail.server))
     IN /\ composed.identity =
             IF NamedIdentity(mail.from) # 0 THEN NamedIdentity(mail.from)
             ELSE IF target # 0 THEN target
             ELSE DefaultIdentityOf(mail.defaultAccount)
        /\ (mail.from # <<>> /\ NamedIdentity(mail.from) = 0) =>
              /\ composed.opened = 1
              /\ composed.success
              /\ composed.warning # <<>>

\* ======================================================================
\* sanitizeForJson (api.js:214-265). A text is its sequence of UTF-16 code
\* units.
\* ======================================================================

\* The control characters sanitizeForJson leaves out (api.js:222-230).
IsDropped(code) ==
  \/ code >= 0 /\ code <= 8
  \/ code = 11
  \/ code = 12
  \/ code >= 14 /\ code <= 31
  \/ code = 127

IsHighSurrogate(code) == code >= 55296 /\ code <= 56319
IsLowSurrogate(code) == code >= 56320 /\ code <= 57343
\* String.prototype.codePointAt(i): a high surrogate followed by a low one is
\* the code point of the pair, every other code unit is its own code point.
CodePointAt(t, i) ==
  IF IsHighSurrogate(t[i]) /\ i < Len(t) /\ IsLowSurrogate(t[i + 1])
    THEN 65536 + (t[i] - 55296) * 1024 + (t[i + 1] - 56320)
    ELSE t[i]

\* The code units appended for a code point above 0x7f (api.js:237-261); the
\* shifts and masks as divisions and remainders.
Encoded(codePoint) ==
  IF codePoint > 65535
    THEN <<240 + (codePoint \div 262144), 128 + ((codePoint \div 4096) % 64),
           128 + ((codePoint \div 64) % 64), 128 + (codePoint % 64)>>
  ELSE IF codePoint <= 2047
    THEN <<192 + (codePoint \div 64), 128 + (codePoint % 64)>>
  ELSE <<224 + (codePoint \div 4096), 128 + ((codePoint \div 64) % 64),
         128 + (codePoint % 64)>>

\* The loop of sanitizeForJson from index i on (api.js:219-262).
RECURSIVE SanitizeFrom(_, _)
SanitizeFrom(t, i) ==
  IF i > Len(t) THEN <<>>
  ELSE IF IsDropped(t[i]) THEN SanitizeFrom(t, i + 1)
  ELSE IF t[i] <= 127 THEN <<t[i]>> \o SanitizeFrom(t, i + 1)
  ELSE Encoded(CodePointAt(t, i))
         \o SanitizeFrom(t, IF CodePointAt(t, i) > 65535 THEN i + 2 ELSE i + 1)

sanitizeForJson(t) == IF t = <<>> THEN t ELSE SanitizeFrom(t, 1)

\* The code units of the input texts: a dropped control character, a line
\* feed, "A", DEL, U+00E9, U+07FF, U+0800, U+FFFF, and the two surrogates of
\* U+1F600.
CodeUnits == {1, 10, 65, 127, 233, 2047, 2048, 65535, 55357, 56832}
Texts == UNION {[1..n -> CodeUnits] : n \in 0..MaxText}

\* sanitizeForJson is applied to the text, and once more to what it returned.
Sanitize ==
  /\ passes < 2
  /\ sanitized' = sanitizeForJson(sanitized)
  /\ passes' = passes + 1
  /\ UNCHANGED original
  /\ UNCHANGED <<coreVars, composeVars, recoverVars, markVars>>

SanitizeInit ==
  /\ BridgeIdle
  /\ ServerIdle
  /\ SearchIdle
  /\ WalkIdle
  /\ ComposeIdle
  /\ RecoverIdle
  /\ MarkIdle
  /\ original \in Texts
  /\ sanitized = original
  /\ passes = 0

SanitizeNext == Sanitize

SanitizeSpec == SanitizeInit /\ [][SanitizeNext]_vars

\* --------------------------------------------------------------- C25
\* C25: applying sanitizeForJson to its own output returns that output
\* unchanged, for every input text.
C25_SanitizeIdempotent == [][passes >= 1 => sanitized' = sanitized]_vars

\* --------------------------------------------------------------- C26
\* The code points of a text (surrogate pairs combined) that are not dropped.
RECURSIVE KeptCodePoints(_, _)
KeptCodePoints(t, i) ==
  IF i > Len(t) THEN <<>>
  ELSE IF IsDropped(t[i]) THEN KeptCodePoints(t, i + 1)
  ELSE <<CodePointAt(t, i)>>
         \o KeptCodePoints(t, IF CodePointAt(t, i) > 65535 THEN i + 2 ELSE i + 1)

\* Standard UTF-8 decoding of a sequence of bytes to code points: overlong
\* forms, encoded surrogates and values above U+10FFFF are malformed, and a
\* malformed byte decodes to U+FFFD.
RECURSIVE DecodeCodePoints(_)
DecodeCodePoints(b) ==
  IF b = <<>> THEN <<>>
  ELSE LET h == Head(b)
           n == Len(b)
       IN IF h < 128 THEN <<h>> \o DecodeCodePoints(Tail(b))
          ELSE IF h >= 194 /\ h <= 223 /\ n >= 2 /\ IsCont(b[2])
            THEN <<(h - 192) * 64 + (b[2] - 128)>> \o DecodeCodePoints(SubSeq(b, 3, n))
          ELSE IF h >= 224 /\ h <= 239 /\ n >= 3 /\ IsCont(b[2]) /\ IsCont(b[3])
                  /\ (h # 224 \/ b[2] >= 160) /\ (h # 237 \/ b[2] <= 159)
            THEN <<(h - 224) * 4096 + (b[2] - 128) * 64 + (b[3] - 128)>>
                   \o DecodeCodePoints(SubSeq(b, 4, n))
          ELSE IF h >= 240 /\ h <= 244 /\ n >= 4 /\ IsCont(b[2]) /\ IsCont(b[3])
                  /\ IsCont(b[4]) /\ (h # 240 \/ b[2] >= 144) /\ (h # 244 \/ b[2] <= 143)
            THEN <<(h - 240) * 262144 + (b[2] - 128) * 4096 + (b[3] - 128) * 64
                     + (b[4] - 128)>>
                   \o DecodeCodePoints(SubSeq(b, 5, n))
          ELSE <<ReplacementChar>> \o DecodeCodePoints(Tail(b))

\* C26: what one pass of sanitizeForJson emits are code units in 0..255 that,
\* read as bytes, are the standard UTF-8 encoding of the code points of the
\* input it did not drop: decoding them gives those code points back.
C26_EmitsStandardUtf8 ==
  passes = 1 =>
     /\ \A i \in 1..Len(sanitized) : sanitized[i] \in 0..255
     /\ DecodeCodePoints(sanitized) = KeptCodePoints(original, 1)

\* ======================================================================
\* res.on('end') of forwardToThunderbird (mcp-bridge.cjs:97-109) for a
\* response body that is one JSON string, given by the characters between
\* its quotes: "a", "n", "t", the backslash, the quote, and the raw
\* characters line feed ("LF"), tab ("TAB") and U+0001 ("SOH").
\* ======================================================================

BodyChars == {"a", "n", "t", "\\", "\"", "LF", "TAB", "SOH"}
Bodies == UNION {[1..n -> BodyChars] : n \in 0..MaxBody}

\* JSON.parse of the string with the content d, from position i on: a raw
\* control character or a quote inside the string, a backslash that is not
\* followed by one of the escape letters of the model, and a backslash before
\* the closing quote are syntax errors.
RECURSIVE JsonParseFrom(_, _)
JsonParseFrom(d, i) ==
  IF i > Len(d) THEN [ok |-> TRUE, value |-> <<>>]
  ELSE IF d[i] \in {"LF", "TAB", "SOH", "\""} THEN [ok |-> FALSE, value |-> <<>>]
  ELSE IF d[i] = "\\"
    THEN IF i + 1 > Len(d) \/ d[i + 1] \notin {"n", "t", "\\", "\""}
           THEN [ok |-> FALSE, value |-> <<>>]
           ELSE LET rest == JsonParseFrom(d, i + 2)
                    c == CASE d[i + 1] = "n" -> "LF"
                           [] d[i + 1] = "t" -> "TAB"
                           [] OTHER -> d[i + 1]
                IN [ok |-> rest.ok, value |-> IF rest.ok THEN <<c>> \o rest.value ELSE <<>>]
  ELSE LET rest == JsonParseFrom(d, i + 1)
       IN [ok |-> rest.ok, value |-> IF rest.ok THEN <<d[i]>> \o rest.value ELSE <<>>]
JsonParse(d) == JsonParseFrom(d, 1)

\* data.replace(/[\x00-\x08\x0b\x0c\x0e-\x1f\x7f]/g, '') (mcp-bridge.cjs:46).
StripControls(d) == SelectSeq(d, LAMBDA c : c # "SOH")

\* replace(/(?<!\\)X/g, '\\x') for one raw character X and its escape letter
\* (mcp-bridge.cjs:48-50): the lookbehind reads the character before X in the
\* text the replace was called on.
RECURSIVE EscapeRaw(_, _, _, _)
EscapeRaw(d, i, raw, letter) ==
  IF i > Len(d) THEN <<>>
  ELSE IF d[i] = raw /\ (i = 1 \/ d[i - 1] # "\\")
    THEN <<"\\", letter>> \o EscapeRaw(d, i + 1, raw, letter)
  ELSE <<d[i]>> \o EscapeRaw(d, i + 1, raw, letter)

\* sanitizeJson (mcp-bridge.cjs:44-52); the body has no carriage return.
sanitizeJsonStripOnly(d) == StripControls(d)
sanitizeJson(d) == EscapeRaw(EscapeRaw(StripControls(d), 1, "LF", "n"), 1, "TAB", "t")

\* res.on('end') (mcp-bridge.cjs:97-109): resolve with the parsed body, else
\* with the parsed sanitized body, else reject.
ResponseEndBody(d) ==
  /\ outcome = NoParse
  /\ data' = d
  /\ outcome' =
       IF JsonParse(d).ok
         THEN [state |-> "resolved", value |-> JsonParse(d).value, sanitizeCalls |-> 0]
       ELSE IF JsonParse(sanitizeJson(d)).ok
         THEN [state |-> "resolved", value |-> JsonParse(sanitizeJson(d)).value,
               sanitizeCalls |-> 1]
       ELSE [state |-> "rejected", value |-> <<>>, sanitizeCalls |-> 1]
  /\ UNCHANGED <<coreVars, composeVars, sanitizeVars, markVars>>

RecoverInit ==
  /\ BridgeIdle
  /\ ServerIdle
  /\ SearchIdle
  /\ WalkIdle
  /\ LibIdle

RecoverNext == \E d \in Bodies : ResponseEndBody(d)

RecoverSpec == RecoverInit /\ [][RecoverNext]_vars

\* --------------------------------------------------------------- C28
\* The body with the control characters stripped and every raw line feed and
\* tab that no backslash precedes written as its escape.
LineSanitized(d) ==
  LET s == SelectSeq(d, LAMBDA c : c # "SOH")
      At(i) == IF s[i] \in {"LF", "TAB"} /\ (i = 1 \/ s[i - 1] # "\\")
                 THEN <<"\\", IF s[i] = "LF" THEN "n" ELSE "t">>
                 ELSE <<s[i]>>
      Cat[i \in 0..Len(s)] == IF i = 0 THEN <<>> ELSE Cat[i - 1] \o At(i)
  IN Cat[Len(s)]

\* C28: a body that parses is passed on as it parsed, without sanitizing; a
\* body that does not parse is parsed once more after control characters are
\* stripped and raw line feeds and tabs not preceded by a backslash are
\* escaped, and when that parse succeeds its value is the response and no
\* error is raised; the promise is rejected only when both parses fail.
C28_BodyRecoveredBySanitize ==
  outcome.state # "pending" =>
     IF JsonParse(data).ok
       THEN /\ outcome.state = "resolved"
            /\ outcome.value = JsonParse(data).value
            /\ outcome.sanitizeCalls = 0
     ELSE IF JsonParse(LineSanitized(data)).ok
       THEN /\ outcome.state = "resolved"
            /\ outcome.value = JsonParse(LineSanitized(data)).value
     ELSE outcome.state = "rejected"

\* The body "a<LF><U+0001>" does not parse; sanitized it is "a\n" and the
\* response is the string of "a" and a line feed.
C28_Witness ==
  /\ data = <<"a", "LF", "SOH">>
  /\ outcome.state = "resolved"
  /\ outcome.sanitizeCalls = 1
  /\ outcome.value = <<"a", "LF">>

\* ======================================================================
\* markAsRead (api.js:940-973) over a mailbox whose folder "f1" holds the
\* messages m1 and m2.
\* ======================================================================

\* What the lookup of a folderPath gives: the folder, null, a folder without
\* message database, or an exception.
FolderPaths == {"f1", "gone", "nodb", "throws"}
MessageIds == Messages \cup {"mX"}
Refs == [messageId : MessageIds, folderPath : FolderPaths]

\* const markRead = read !== false (api.js:941).
MarkReadOnlyIfTrue(read) == read = "true"
MarkRead(read) == read # "false"

\* One turn of the loop of markAsRead (api.js:943-971) on the flags and the
\* results so far.
MarkTurn(st, ref, markRead) ==
  LET Error(e) ==
        [st EXCEPT !.results =
           Append(@, [messageId |-> ref.messageId, folderPath |-> ref.folderPath,
                      error |-> e, success |-> FALSE, read |-> FALSE])]
  IN IF ref.folderPath = "throws" THEN Error("exception")
     ELSE IF ref.folderPath = "gone" THEN Error("Folder not found")
     ELSE IF ref.folderPath = "nodb" THEN Error("Could not access folder database")
     ELSE IF ref.messageId \notin Messages THEN Error("Message not found")
     ELSE [flags |-> [st.flags EXCEPT ![ref.messageId] = markRead],
           results |->
             Append(st.results,
                    [messageId |-> ref.messageId, folderPath |-> ref.folderPath,
                     error |-> "", success |-> TRUE, read |-> markRead])]

RECURSIVE MarkLoop(_, _, _)
MarkLoop(st, refs, markRead) ==
  IF refs = <<>> THEN st
  ELSE MarkLoop(MarkTurn(st, Head(refs), markRead), Tail(refs), markRead)

\* The calls: messages is absent or a list of references, read is absent,
\* true or false.
MarkCalls ==
  [given : {TRUE}, messages : UNION {[1..n -> Refs] : n \in 0..MaxRefs},
   read : {"absent", "true", "false"}]
    \cup [given : {FALSE}, messages : {<<>>}, read : {"absent", "true", "false"}]

\* callTool's markAsRead(args.messages || [], args.read) (api.js:993-994) and
\* markAsRead (api.js:940-973).
MarkAsReadCall(c) ==
  /\ markState = "none"
  /\ LET st == MarkLoop([flags |-> isRead, results |-> <<>>], c.messages, MarkRead(c.read))
     IN /\ isRead' = st.flags
        /\ markResults' = st.results
  /\ markCall' = [given |-> c.given, messages |-> c.messages, read |-> c.read,
                  before |-> isRead]
  /\ markState' = "returned"
  /\ UNCHANGED <<coreVars, composeVars, sanitizeVars, recoverVars>>

MarkInit ==
  /\ BridgeIdle
  /\ ServerIdle
  /\ SearchIdle
  /\ WalkIdle
  /\ ComposeIdle
  /\ SanitizeIdle
  /\ RecoverIdle
  /\ markCall = NoMarkCall
  /\ isRead \in [Messages -> BOOLEAN]
  /\ markResults = <<>>
  /\ markState = "none"

MarkNext == \E c \in MarkCalls : MarkAsReadCall(c)

MarkSpec == MarkInit /\ [][MarkNext]_vars

\* --------------------------------------------------------------- C30
\* The reference names a message of the mailbox in its folder.
IsFound(ref) == ref.folderPath = "f1" /\ ref.messageId \in Messages
\* The read argument, true when it is omitted.
WantedFlag == IF markCall.read = "absent" THEN TRUE ELSE markCall.read = "true"

====
